---- MODULE Spec2Model ----
(***************************************************************************)
(* Scene-construction engine of Project-Einstein: the per-conversation     *)
(* scene document (ConversationContext.scene_state / scene_history), the   *)
(* scene_editor edit operations, the batch update route and the iterative  *)
(* build loop of build_physics_scene.                                      *)
(*                                                                         *)
(* Numbers.  Lengths in meters are integers counted in model length units; *)
(* scale_m_per_px is an integer number of length units per pixel.  Pixel   *)
(* quantities (origin_px included) are fixed-point integers with 8         *)
(* sub-steps per pixel; image sizes are whole numbers of pixels.  The      *)
(* inputs are chosen on the lattice where every division the code makes    *)
(* is exact (even sizes, even scales), so the integer arithmetic below is  *)
(* the real-number arithmetic of the code on those inputs.                 *)
(*                                                                         *)
(* Optional values (Python None / a missing dict key) are sequences:       *)
(* None is << >> and a present value v is << v >>.                         *)
(* Python dicts keep insertion order; a dict is a sequence of              *)
(* [key, val] entries.                                                     *)
(***************************************************************************)
EXTENDS Integers, Sequences, FiniteSets, TLC

\* ------------------------------------------------------------------------
\* Bounds of the model
\* ------------------------------------------------------------------------

\* no edit is started once the history holds this many snapshots
MaxHistory == 3

\* no body is created once the document holds this many bodies
MaxBodies == 2

\* ------------------------------------------------------------------------
\* Generic helpers
\* ------------------------------------------------------------------------

None == << >>

Some(v) == << v >>

\* Python "opt or default" for a numeric/optional value
OrElse(opt, default) == IF opt = None THEN default ELSE opt[1]

Max(a, b) == IF a >= b THEN a ELSE b

Min(a, b) == IF a <= b THEN a ELSE b

Abs(a) == IF a >= 0 THEN a ELSE -a

\* ordered dict operations (dict.update of one key, dict.pop, dict.get, values())
DictHas(d, k) == \E i \in DOMAIN d : d[i].key = k

DictGet(d, k) == d[CHOOSE i \in DOMAIN d : d[i].key = k].val

DictSet(d, k, v) ==
    IF DictHas(d, k)
    THEN [i \in DOMAIN d |-> IF d[i].key = k THEN [key |-> k, val |-> v] ELSE d[i]]
    ELSE Append(d, [key |-> k, val |-> v])

DictPop(d, k) == SelectSeq(d, LAMBDA e : e.key # k)

DictValues(d) == [i \in DOMAIN d |-> d[i].val]

DictKeys(d) == {d[i].key : i \in DOMAIN d}

\* ------------------------------------------------------------------------
\* Coordinate conversion (fixed point)
\* ------------------------------------------------------------------------

\* a whole number of pixels as a fixed-point pixel value (8 sub-steps per pixel)
Px(n) == n * 8

\* a length in meters divided by scale_m_per_px, as a fixed-point pixel value
MetersToPx(len_m, scale) == (len_m * Px(1)) \div scale

\* a fixed-point pixel length multiplied by scale_m_per_px, in meters
PxToMeters(len_px, scale) == (len_px * scale) \div Px(1)

\* ------------------------------------------------------------------------
\* ConversationContext
\* ------------------------------------------------------------------------

\* world written by reset_scene_state when the caller gives none
\* (gravity in cm/s^2, time step in ms)
DefaultWorld == [gravity_m_s2 |-> 981, time_step_s |-> 16]

\* a ConversationContext as constructed (all fields at their defaults)
NewContext(image_metadata) ==
    [ scene_state    |-> None,
      scene_history  |-> << >>,
      mapping        |-> None,
      image_metadata |-> image_metadata,
      scene          |-> None,
      tool_calls     |-> << >> ]

\* reset_scene_state that seeds world and mapping and keeps the bodies and
\* constraints the document holds
reset_scene_state_keep_bodies(context, world, mapping) ==
    [ context EXCEPT
        !.scene_state   = Some([ world       |-> IF world = None THEN DefaultWorld ELSE world[1],
                                 bodies      |-> IF @ = None THEN << >> ELSE @[1].bodies,
                                 constraints |-> IF @ = None THEN << >> ELSE @[1].constraints,
                                 mapping     |-> mapping ]),
        !.scene_history = << >>,
        !.scene         = None,
        !.mapping       = mapping ]

\* ConversationContext.reset_scene_state(world=, mapping=)
reset_scene_state(context, world, mapping) ==
    [ context EXCEPT
        !.scene_state   = Some([ world       |-> IF world = None THEN DefaultWorld ELSE world[1],
                                 bodies      |-> << >>,
                                 constraints |-> << >>,
                                 mapping     |-> mapping ]),
        !.scene_history = << >>,
        !.scene         = None,
        !.mapping       = mapping ]

\* "if not self.scene_state: self.reset_scene_state()"
ensure_scene_initialized(context) ==
    IF context.scene_state = None THEN reset_scene_state(context, None, None) ELSE context

\* the dict built by scene_snapshot from an initialized scene_state:
\* deep copies of world and mapping, bodies and constraints flattened to lists
SnapshotOf(scene_state) ==
    [ version     |-> "0.6-iterative",
      world       |-> scene_state.world,
      bodies      |-> DictValues(scene_state.bodies),
      constraints |-> DictValues(scene_state.constraints),
      mapping     |-> scene_state.mapping ]

\* ConversationContext.scene_snapshot: returns the context (self.scene is set,
\* an empty scene_state is reset first) and the snapshot
scene_snapshot(context) ==
    LET c == ensure_scene_initialized(context)
        snapshot == SnapshotOf(c.scene_state[1])
    IN [ context |-> [c EXCEPT !.scene = Some(snapshot)], snapshot |-> snapshot ]

\* record_scene_snapshot storing the live dicts instead of deep copies: the
\* entries appended earlier show the current scene
record_scene_snapshot_alias(context, note) ==
    LET s == scene_snapshot(context)
        entry == [note |-> note, scene |-> s.snapshot]
        shared == [ i \in DOMAIN s.context.scene_history |->
                      [ s.context.scene_history[i] EXCEPT !.scene = s.snapshot ] ]
    IN [ context  |-> [s.context EXCEPT !.scene_history = Append(shared, entry)],
         snapshot |-> s.snapshot ]

\* ConversationContext.record_scene_snapshot
record_scene_snapshot(context, note) ==
    LET s == scene_snapshot(context)
        entry == [note |-> note, scene |-> s.snapshot]
    IN [ context  |-> [s.context EXCEPT !.scene_history = Append(@, entry)],
         snapshot |-> s.snapshot ]

\* apply_scene_updates recording its snapshot into the history as well
apply_scene_updates_recording(context, bodies, constraints) ==
    LET c == ensure_scene_initialized(context)
        RECURSIVE Merge(_, _)
        Merge(d, upd) == IF upd = << >> THEN d
                         ELSE Merge(DictSet(d, upd[1].key, upd[1].val), Tail(upd))
        st == [ c.scene_state[1] EXCEPT !.bodies = Merge(@, bodies),
                                        !.constraints = Merge(@, constraints) ]
    IN record_scene_snapshot([c EXCEPT !.scene_state = Some(st)], << "apply" >>).context

\* ConversationContext.apply_scene_updates(bodies=, constraints=): each argument
\* is a dict (sequence of entries); merges them and takes a snapshot
apply_scene_updates(context, bodies, constraints) ==
    LET c == ensure_scene_initialized(context)
        RECURSIVE Merge(_, _)
        Merge(d, upd) == IF upd = << >> THEN d
                         ELSE Merge(DictSet(d, upd[1].key, upd[1].val), Tail(upd))
        st == [ c.scene_state[1] EXCEPT !.bodies = Merge(@, bodies),
                                        !.constraints = Merge(@, constraints) ]
    IN scene_snapshot([c EXCEPT !.scene_state = Some(st)]).context

\* remove_scene_entities emptying the bodies dict instead of popping one id
remove_scene_entities_clear(context, body_id) ==
    LET c == ensure_scene_initialized(context)
        st == [ c.scene_state[1] EXCEPT !.bodies = << >> ]
    IN scene_snapshot([c EXCEPT !.scene_state = Some(st)]).context

\* ConversationContext.remove_scene_entities(body_ids=[body_id])
remove_scene_entities(context, body_id) ==
    LET c == ensure_scene_initialized(context)
        st == [ c.scene_state[1] EXCEPT !.bodies = DictPop(@, body_id) ]
    IN scene_snapshot([c EXCEPT !.scene_state = Some(st)]).context

\* ------------------------------------------------------------------------
\* ContextStore: a function from the registered conversation ids to contexts
\* ------------------------------------------------------------------------

\* ContextStore.update_context: self._contexts[context.conversation_id] = context
update_context(contexts, conversation_id, context) ==
    [ c \in DOMAIN contexts \cup {conversation_id} |->
        IF c = conversation_id THEN context ELSE contexts[c] ]

\* ContextStore.delete_context
delete_context(contexts, conversation_id) ==
    [ c \in DOMAIN contexts \ {conversation_id} |-> contexts[c] ]

\* the ConversationContext objects a suspended request can reach: those of the
\* store, and those it resolved before they were deleted from the store
Heap(contexts, held) ==
    [ c \in DOMAIN contexts \cup DOMAIN held |->
        IF c \in DOMAIN contexts THEN contexts[c] ELSE held[c] ]

\* the objects of a heap stored under the given ids
Restrict(contexts, ids) == [ c \in DOMAIN contexts \cap ids |-> contexts[c] ]

\* ------------------------------------------------------------------------
\* BoundsClamper
\* ------------------------------------------------------------------------

\* margin_px = 2.0
MarginPx == 2

\* lower bound max(..., 2.0) of the largest allowed footprint, in pixels
MinMaxFootprintPx == 2

\* the 1e-6 px floor of a footprint and the 1e-6 px tolerance of the position
\* comparison are below the resolution of the fixed-point pixel values
PxEps == 0

\* clamp_center with the upper limit of the center range left out
clamp_center_lower_only(center_px, min_center, max_center, extent_px) ==
    IF min_center > max_center THEN extent_px \div 2
    ELSE Max(center_px, min_center)

\* lines 116-130, one axis: the center clamped into [min_center, max_center],
\* or the middle of the image when that range is empty
clamp_center(center_px, min_center, max_center, extent_px) ==
    IF min_center > max_center THEN extent_px \div 2
    ELSE Min(Max(center_px, min_center), max_center)

\* lines 85-103, one axis: the footprint in pixels, capped at the largest
\* footprint the image allows, and the size in meters that goes with it
clamp_extent(size_m, scale, image_px) ==
    LET margin_px == Px(MarginPx)
        max_px == Max(image_px - margin_px * 2, Px(MinMaxFootprintPx))
        px_value == Max(MetersToPx(size_m, scale), PxEps)
    IN IF px_value > max_px
       THEN [ clamped |-> TRUE, px |-> max_px, m |-> PxToMeters(max_px, scale) ]
       ELSE [ clamped |-> FALSE, px |-> px_value, m |-> size_m ]

\* lines 111-130, one axis: the clamped center and whether it moved
clamp_axis(center_px, half_px, image_px) ==
    LET margin_px == Px(MarginPx)
        min_center == margin_px + half_px
        max_center == image_px - margin_px - half_px
        clamped == clamp_center(center_px, min_center, max_center, image_px)
    IN [ px    |-> clamped,
         moved |-> min_center <= max_center /\ Abs(clamped - center_px) > PxEps ]

\* lines 81-137: the clamp once mapping and image size are known
clamp_in_frame(origin, scale, width_px, height_px, position_m, size_m) ==
    LET origin_x == origin[1]
        origin_y == origin[2]
        w == clamp_extent(size_m[1], scale, width_px)
        h == clamp_extent(size_m[2], scale, height_px)
        x == clamp_axis(origin_x + MetersToPx(position_m[1], scale), w.px \div 2, width_px)
        y == clamp_axis(origin_y - MetersToPx(position_m[2], scale), h.px \div 2, height_px)
    IN [ position    |-> << PxToMeters(x.px - origin_x, scale),
                            PxToMeters(origin_y - y.px, scale) >>,
         size        |-> << w.m, h.m >>,
         adjustments |-> (IF w.clamped THEN << "width_clamped" >> ELSE << >>)
                         \o (IF h.clamped THEN << "height_clamped" >> ELSE << >>)
                         \o (IF x.moved THEN << "position_x_clamped" >> ELSE << >>)
                         \o (IF y.moved THEN << "position_y_clamped" >> ELSE << >>) ]

\* _clamp_block_to_image_bounds(context, position_m, size_m)
clamp_block_to_image_bounds(context, position_m, size_m) ==
    LET mapping   == IF context.scene_state # None /\ context.scene_state[1].mapping # None
                     THEN context.scene_state[1].mapping ELSE context.mapping
        scale     == IF mapping = None THEN 0 ELSE mapping[1].scale_m_per_px
        width_px  == IF context.image_metadata = None THEN 0
                     ELSE Px(OrElse(context.image_metadata[1].width_px, 0))
        height_px == IF context.image_metadata = None THEN 0
                     ELSE Px(OrElse(context.image_metadata[1].height_px, 0))
    IN IF mapping = None \/ scale <= 0 \/ width_px <= 0 \/ height_px <= 0
       THEN [ position |-> position_m, size |-> size_m, adjustments |-> << >> ]
       ELSE clamp_in_frame(mapping[1].origin_px, scale, width_px, height_px,
                           position_m, size_m)

\* ------------------------------------------------------------------------
\* Scene editor: input models
\* ------------------------------------------------------------------------

\* f"block_{n}", f"pulley_{n}", f"rope_{n}" for the counts the bounds allow
BlockName(n) == << "block_1", "block_2", "block_3", "block_4", "block_5", "block_6" >>[n]

PulleyName(n) == << "pulley_1", "pulley_2", "pulley_3", "pulley_4", "pulley_5", "pulley_6" >>[n]

RopeName(n) == << "rope_1", "rope_2", "rope_3", "rope_4", "rope_5", "rope_6" >>[n]

\* f"{pulley_id}_axle" for the pulley ids of the model
AxleName(pulley_id) ==
    CASE pulley_id = "p" -> "p_axle"
      [] pulley_id = "pulley_1" -> "pulley_1_axle"
      [] pulley_id = "pulley_2" -> "pulley_2_axle"
      [] pulley_id = "pulley_3" -> "pulley_3_axle"
      [] OTHER -> "pulley_n_axle"

\* CreateBlockInput._validate_size (the other fields are typed values already)
CreateBlockInputValid(input) == ~(input.size_m[1] <= 0 \/ input.size_m[2] <= 0)

\* CreatePulleyInput: radius_m = Field(gt=0.0)
CreatePulleyInputValid(input) == input.radius_m > 0

\* CreateRopeInput: length_m, stiffness, damping = Field(ge=0.0) when given
CreateRopeInputValid(input) ==
    /\ OrElse(input.length_m, 0) >= 0
    /\ OrElse(input.stiffness, 0) >= 0
    /\ OrElse(input.damping, 0) >= 0

\* SetMappingInput: scale_m_per_px = Field(gt=0.0)
SetMappingInputValid(input) == input.scale_m_per_px > 0

\* ModifyBlockInput, RemoveBlockInput and SetWorldInput declare no constraint
\* beyond the field types
UnconstrainedInputValid(input) == TRUE

\* _material_dict
material_dict(friction, restitution, density) ==
    IF friction = None /\ restitution = None /\ density = None THEN None
    ELSE Some([friction |-> friction, restitution |-> restitution, density_kg_m3 |-> density])

\* the value a tool function hands back, or the exception it raises
Returned(context, scene, body_ids, constraint_ids) ==
    [ context |-> context, raised |-> FALSE, error |-> "",
      scene |-> Some(scene), updated_body_ids |-> body_ids,
      updated_constraint_ids |-> constraint_ids ]

Raised(context, error) ==
    [ context |-> context, raised |-> TRUE, error |-> error,
      scene |-> None, updated_body_ids |-> << >>, updated_constraint_ids |-> << >> ]

\* ------------------------------------------------------------------------
\* Scene editor: tool implementations, from the resolved context on.
\* Each returns the context as the call leaves it (also when it raises).
\* ------------------------------------------------------------------------

\* _snapshot_after_update and the SceneEditOutput built from it (the
\* store.update_context of _snapshot_after_update is made by CallTool)
snapshot_after_update(context, note, body_ids, constraint_ids) ==
    LET rec == record_scene_snapshot(context, note)
    IN Returned(rec.context, rec.snapshot, body_ids, constraint_ids)

\* the body dict of create_block (lines 250-274)
block_body(body_id, input, clamp) ==
    [ id           |-> body_id,
      type         |-> input.body_type,
      position_m   |-> clamp.position,
      collider     |-> [ type |-> "rectangle",
                         width_m |-> Some(clamp.size[1]),
                         height_m |-> Some(clamp.size[2]),
                         radius_m |-> None ],
      notes        |-> input.notes,
      velocity_m_s |-> input.velocity_m_s,
      mass_kg      |-> input.mass_kg,
      angle_rad    |-> input.angle_rad,
      material     |-> material_dict(input.friction, input.restitution, input.density_kg_m3),
      meta         |-> IF clamp.adjustments = << >> THEN None
                       ELSE Some([ category |-> None, parent |-> None,
                                   image_boundary_adjustments |-> Some(clamp.adjustments) ]) ]

\* create_block, after _get_context
create_block(context0, input) ==
    LET context == ensure_scene_initialized(context0)
        body_id == IF input.body_id # None THEN input.body_id[1]
                   ELSE BlockName(Len(context.scene_state[1].bodies) + 1)
        body == block_body(body_id, input,
                    clamp_block_to_image_bounds(context, input.position_m, input.size_m))
    IN snapshot_after_update(
           apply_scene_updates(context, << [key |-> body_id, val |-> body] >>, << >>),
           << "create_block", body_id >>, << body_id >>, << >>)

\* the scene_state of a context with one body replaced (bodies[body_id] is
\* mutated in place by modify_block)
WithBody(context, body_id, body) ==
    [ context EXCEPT !.scene_state =
        Some([ context.scene_state[1] EXCEPT !.bodies = DictSet(@, body_id, body) ]) ]

\* modify_block lines 321-329: the material dict after the provided entries
\* are written, None when it is empty and popped
MergeMaterial(material, input) ==
    LET m0 == IF material = None
              THEN [friction |-> None, restitution |-> None, density_kg_m3 |-> None]
              ELSE material[1]
        m1 == [ friction      |-> IF input.friction # None THEN input.friction ELSE m0.friction,
                restitution   |-> IF input.restitution # None THEN input.restitution
                                  ELSE m0.restitution,
                density_kg_m3 |-> IF input.density_kg_m3 # None THEN input.density_kg_m3
                                  ELSE m0.density_kg_m3 ]
    IN IF m1.friction = None /\ m1.restitution = None /\ m1.density_kg_m3 = None
       THEN None ELSE Some(m1)

\* modify_block lines 298-329: the provided fields merged into the body
\* (size_m is positive here)
MergeBlockFields(body0, input) ==
    [ body0 EXCEPT
        !.position_m   = IF input.position_m # None THEN input.position_m[1] ELSE @,
        !.collider     = IF input.size_m # None
                         THEN [ @ EXCEPT !.type = "rectangle",
                                         !.width_m = Some(input.size_m[1][1]),
                                         !.height_m = Some(input.size_m[1][2]) ]
                         ELSE @,
        !.type         = IF input.body_type # None THEN input.body_type[1] ELSE @,
        !.angle_rad    = IF input.angle_rad # None THEN input.angle_rad ELSE @,
        !.velocity_m_s = IF input.velocity_m_s # None THEN input.velocity_m_s ELSE @,
        !.mass_kg      = IF input.mass_kg # None THEN input.mass_kg ELSE @,
        !.notes        = IF input.notes # None THEN input.notes ELSE @,
        !.material     = MergeMaterial(@, input) ]

\* modify_block lines 347-350: set or clear the clamp tags of the body
TagAdjustments(body, adjustments) ==
    IF adjustments # << >>
    THEN [ body EXCEPT !.meta =
             IF @ = None
             THEN Some([ category |-> None, parent |-> None,
                         image_boundary_adjustments |-> Some(adjustments) ])
             ELSE Some([ @[1] EXCEPT !.image_boundary_adjustments = Some(adjustments) ]) ]
    ELSE IF body.meta # None
    THEN [ body EXCEPT !.meta = Some([ @[1] EXCEPT !.image_boundary_adjustments = None ]) ]
    ELSE body

\* modify_block lines 344-345: position and size as the clamp returned them
ClampedBlock(body, clamp) ==
    [ body EXCEPT !.position_m = clamp.position,
                  !.collider = [ @ EXCEPT !.width_m = Some(clamp.size[1]),
                                          !.height_m = Some(clamp.size[2]) ] ]

\* modify_block lines 331-350: re-clamp a rectangle, set or clear the clamp tags
ReclampBlock(context, body) ==
    IF body.collider.type = "rectangle"
    THEN LET clamp == clamp_block_to_image_bounds(context, body.position_m,
                          << OrElse(body.collider.width_m, 0),
                             OrElse(body.collider.height_m, 0) >>)
         IN TagAdjustments(ClampedBlock(body, clamp), clamp.adjustments)
    ELSE TagAdjustments(body, << >>)

\* modify_block lines 352-362: the body written in place, applied, recorded
StoreBlock(context, body_id, body) ==
    snapshot_after_update(
        apply_scene_updates(WithBody(context, body_id, body),
                            << [key |-> body_id, val |-> body] >>, << >>),
        << "modify_block", body_id >>, << body_id >>, << >>)

\* modify_block, after _get_context
modify_block(context0, input) ==
    LET context == ensure_scene_initialized(context0)
        bodies == context.scene_state[1].bodies
    IN IF ~DictHas(bodies, input.body_id)
       THEN Raised(context, "Body not found")
       ELSE IF input.size_m # None /\ (input.size_m[1][1] <= 0 \/ input.size_m[1][2] <= 0)
       THEN \* position_m is already written into the stored body when this raises
            Raised(WithBody(context, input.body_id,
                            [ DictGet(bodies, input.body_id) EXCEPT !.position_m =
                                IF input.position_m # None THEN input.position_m[1] ELSE @ ]),
                   "size_m must be positive")
       ELSE StoreBlock(context, input.body_id,
                ReclampBlock(context, MergeBlockFields(DictGet(bodies, input.body_id), input)))

\* remove_block, after _get_context
remove_block(context0, input) ==
    LET context == ensure_scene_initialized(context0)
    IN snapshot_after_update(remove_scene_entities(context, input.body_id),
                             << "remove_block", input.body_id >>, << input.body_id >>, << >>)

\* max(0.01, axle_radius_m): 0.01 m in model length units
AxleMinRadius == 2

\* create_pulley, after _get_context
create_pulley(context0, input) ==
    LET context == ensure_scene_initialized(context0)
        pulley_id == IF input.pulley_id # None THEN input.pulley_id[1]
                     ELSE PulleyName(Len(context.scene_state[1].bodies) + 1)
        circle(id, radius, notes, category, parent) ==
            [ id           |-> id,
              type         |-> "static",
              position_m   |-> input.center_m,
              collider     |-> [ type |-> "circle", width_m |-> None, height_m |-> None,
                                 radius_m |-> Some(radius) ],
              notes        |-> Some(notes),
              velocity_m_s |-> Some(<< 0, 0 >>),
              mass_kg      |-> None,
              angle_rad    |-> None,
              material     |-> None,
              meta         |-> Some([ category |-> Some(category), parent |-> parent,
                                      image_boundary_adjustments |-> None ]) ]
        pulley_body == circle(pulley_id, input.radius_m, OrElse(input.notes, "pulley"),
                              "pulley", None)
        has_axle == input.axle_radius_m # None /\ input.axle_radius_m[1] # 0
        axle_id == IF input.axle_body_id # None THEN input.axle_body_id[1] ELSE AxleName(pulley_id)
        axle_body == circle(axle_id, Max(AxleMinRadius, input.axle_radius_m[1]), "axle",
                            "axle", Some(pulley_id))
        updates == << [key |-> pulley_id, val |-> pulley_body] >>
                   \o (IF has_axle THEN << [key |-> axle_id, val |-> axle_body] >> ELSE << >>)
    IN snapshot_after_update(apply_scene_updates(context, updates, << >>),
                             << "create_pulley", pulley_id >>,
                             << pulley_id >> \o (IF has_axle THEN << axle_id >> ELSE << >>),
                             << >>)

\* create_rope, after _get_context
create_rope(context0, input) ==
    LET context == ensure_scene_initialized(context0)
        constraint_id == IF input.constraint_id # None THEN input.constraint_id[1]
                         ELSE RopeName(Len(context.scene_state[1].constraints) + 1)
        constraint == [ id            |-> constraint_id,
                        type          |-> "rope",
                        body_a        |-> Some(input.body_a),
                        body_b        |-> Some(input.body_b),
                        notes         |-> input.notes,
                        anchor_a      |-> input.anchor_a_m,
                        anchor_b      |-> input.anchor_b_m,
                        rope_length_m |-> input.length_m,
                        tuning        |-> IF input.stiffness = None /\ input.damping = None
                                          THEN None
                                          ELSE Some([ stiffness |-> input.stiffness,
                                                      damping |-> input.damping ]) ]
    IN snapshot_after_update(
           apply_scene_updates(context, << >>,
                               << [key |-> constraint_id, val |-> constraint] >>),
           << "create_rope", constraint_id >>, << >>, << constraint_id >>)

\* set_world, after _get_context
set_world(context0, input) ==
    LET context == ensure_scene_initialized(context0)
        world == [ context.scene_state[1].world EXCEPT
                     !.gravity_m_s2 = input.gravity_m_s2,
                     !.time_step_s = input.time_step_s ]
        written == [ context EXCEPT !.scene_state =
                       Some([ context.scene_state[1] EXCEPT !.world = world ]) ]
    IN snapshot_after_update(written, << "set_world" >>, << >>, << >>)

\* set_mapping re-projecting the bodies: every body keeps its pixel position
\* under the new mapping instead of its position in meters
set_mapping_reprojecting(context0, input) ==
    LET context == ensure_scene_initialized(context0)
        old == context.scene_state[1].mapping
        mapping == Some([ origin_px |-> input.origin_px,
                          scale_m_per_px |-> input.scale_m_per_px ])
        moved(body) ==
            IF old = None THEN body
            ELSE [ body EXCEPT !.position_m =
                     << PxToMeters(MetersToPx(body.position_m[1], old[1].scale_m_per_px),
                                   input.scale_m_per_px),
                        PxToMeters(MetersToPx(body.position_m[2], old[1].scale_m_per_px),
                                   input.scale_m_per_px) >> ]
        bodies == [ i \in DOMAIN context.scene_state[1].bodies |->
                      [ key |-> context.scene_state[1].bodies[i].key,
                        val |-> moved(context.scene_state[1].bodies[i].val) ] ]
        written == [ context EXCEPT
                       !.scene_state = Some([ context.scene_state[1] EXCEPT
                                                !.mapping = mapping, !.bodies = bodies ]),
                       !.mapping = mapping ]
    IN snapshot_after_update(written, << "set_mapping" >>, << >>, << >>)

\* set_mapping, after _get_context
set_mapping(context0, input) ==
    LET context == ensure_scene_initialized(context0)
        mapping == Some([ origin_px |-> input.origin_px,
                          scale_m_per_px |-> input.scale_m_per_px ])
        written == [ context EXCEPT
                       !.scene_state = Some([ context.scene_state[1] EXCEPT !.mapping = mapping ]),
                       !.mapping = mapping ]
    IN snapshot_after_update(written, << "set_mapping" >>, << >>, << >>)

\* ------------------------------------------------------------------------
\* Calling a scene-editor tool: input model validation, _get_context, the
\* tool function, _snapshot_after_update's store.update_context
\* ------------------------------------------------------------------------

\* the names of SCENE_EDIT_TOOL_MAP
SceneEditToolNames ==
    { "create_block", "modify_block", "remove_block", "create_pulley",
      "create_rope", "set_world", "set_mapping" }

\* spec.input_model.model_validate
InputValid(name, input) ==
    CASE name = "create_block"  -> CreateBlockInputValid(input)
      [] name = "create_pulley" -> CreatePulleyInputValid(input)
      [] name = "create_rope"   -> CreateRopeInputValid(input)
      [] name = "set_mapping"   -> SetMappingInputValid(input)
      [] OTHER                  -> UnconstrainedInputValid(input)

\* spec.function
ToolFunction(name, context, input) ==
    CASE name = "create_block"  -> create_block(context, input)
      [] name = "modify_block"  -> modify_block(context, input)
      [] name = "remove_block"  -> remove_block(context, input)
      [] name = "create_pulley" -> create_pulley(context, input)
      [] name = "create_rope"   -> create_rope(context, input)
      [] name = "set_world"     -> set_world(context, input)
      [] name = "set_mapping"   -> set_mapping(context, input)

\* the store after store.update_context(context), and what the caller gets
Stored(contexts, conversation_id, result) ==
    [ contexts |-> update_context(contexts, conversation_id, result.context),
      result   |-> result ]

\* CallTool with a _get_context that registers a new context for an unknown id
CallTool_get_or_create(contexts, name, input) ==
    IF ~InputValid(name, input)
    THEN [ contexts |-> contexts, result |-> Raised(None, "ValidationError") ]
    ELSE Stored(contexts, input.conversation_id,
                ToolFunction(name,
                             IF input.conversation_id \in DOMAIN contexts
                             THEN contexts[input.conversation_id] ELSE NewContext(None),
                             input))

\* one call of a tool of the catalogue against the store: the store as the
\* call leaves it and what the caller gets
CallTool(contexts, name, input) ==
    IF ~InputValid(name, input)
    THEN [ contexts |-> contexts, result |-> Raised(None, "ValidationError") ]
    ELSE IF input.conversation_id \notin DOMAIN contexts
    THEN [ contexts |-> contexts, result |-> Raised(None, "Conversation not found") ]
    ELSE Stored(contexts, input.conversation_id,
                ToolFunction(name, contexts[input.conversation_id], input))

\* ------------------------------------------------------------------------
\* Batch update route (routers/simulation_update.py)
\* ------------------------------------------------------------------------

\* _ensure_scene_initialized of simulation_update.py
batch_ensure_scene_initialized(context) ==
    IF context.scene_state # None THEN context
    ELSE reset_scene_state(context, None,
             IF context.scene = None THEN None
             ELSE IF context.mapping # None THEN context.mapping
             ELSE context.scene[1].mapping)

\* default size_m entries of _validate_and_merge_body_update (1.0 m, 0.5 m)
BatchDefaultSize == 200

BatchDefaultRadius == 100

\* size_m of lines 84-94: the collider's size with the route's defaults
BatchSizeOf(collider) ==
    CASE collider.type = "rectangle" ->
             << OrElse(collider.width_m, BatchDefaultSize),
                OrElse(collider.height_m, BatchDefaultSize) >>
      [] collider.type = "circle" ->
             << OrElse(collider.radius_m, BatchDefaultRadius) * 2,
                OrElse(collider.radius_m, BatchDefaultRadius) * 2 >>
      [] OTHER -> << BatchDefaultSize, BatchDefaultSize >>

\* lines 106-111: the clamp written into the merged body. {**existing_body,
\* **updates} is a shallow copy: updated_body["collider"] is the stored body's
\* collider, so the size is written into the live document as well
BatchClamped(context, body_id, existing, merged, clamp) ==
    LET collider == IF merged.collider.type = "rectangle"
                    THEN [ merged.collider EXCEPT !.width_m = Some(clamp.size[1]),
                                                  !.height_m = Some(clamp.size[2]) ]
                    ELSE merged.collider
    IN [ outcome |-> "ok",
         body    |-> [ merged EXCEPT !.position_m = clamp.position, !.collider = collider ],
         context |-> WithBody(context, body_id, [ existing EXCEPT !.collider = collider ]) ]

\* {**existing_body, **updates}
BatchMerged(existing, updates) ==
    [ existing EXCEPT
        !.position_m = IF updates.position_m # None THEN updates.position_m[1] ELSE @,
        !.mass_kg = IF updates.mass_kg # None THEN updates.mass_kg ELSE @,
        !.id = IF updates.id # None THEN updates.id[1] ELSE @ ]

\* _validate_and_merge_body_update for a body that exists: outcome "ok" with
\* the merged body, or "error" when a non-HTTP exception escapes; context is
\* the context after the in-place write to the shared collider dict
validate_and_merge_body_update(context, body_id, updates) ==
    LET existing == DictGet(context.scene_state[1].bodies, body_id)
    IN IF updates.position_m = None
       THEN [ outcome |-> "ok", body |-> BatchMerged(existing, updates), context |-> context ]
       ELSE IF Len(updates.position_m[1]) < 2
       THEN \* float(position_m[0]) raises IndexError inside the clamp
            [ outcome |-> "error", body |-> existing, context |-> context ]
       ELSE BatchClamped(context, body_id, existing, BatchMerged(existing, updates),
                clamp_block_to_image_bounds(context, updates.position_m[1],
                    BatchSizeOf(BatchMerged(existing, updates).collider)))

\* _validate_and_merge_constraint_update for a constraint that exists
validate_and_merge_constraint_update(context, constraint_id, updates) ==
    LET existing == DictGet(context.scene_state[1].constraints, constraint_id)
    IN [ existing EXCEPT
           !.rope_length_m = IF updates.rope_length_m # None THEN updates.rope_length_m ELSE @,
           !.body_b = IF updates.body_b # None THEN updates.body_b ELSE @ ]

\* Step 2 of batch_update_scene: the loop over request.body_updates
RECURSIVE MergeBodyUpdates(_, _, _, _)
MergeBodyUpdates(context, todo, updated_bodies, warnings) ==
    IF todo = << >>
    THEN [ http_error |-> FALSE, context |-> context,
           updated_bodies |-> updated_bodies, warnings |-> warnings ]
    ELSE IF ~DictHas(context.scene_state[1].bodies, todo[1].key)
    THEN [ http_error |-> TRUE, context |-> context,
           updated_bodies |-> updated_bodies, warnings |-> warnings ]
    ELSE LET r == validate_and_merge_body_update(context, todo[1].key, todo[1].val)
         IN IF r.outcome = "ok"
            THEN MergeBodyUpdates(r.context, Tail(todo),
                                  DictSet(updated_bodies, todo[1].key, r.body), warnings)
            ELSE MergeBodyUpdates(r.context, Tail(todo), updated_bodies,
                                  Append(warnings, << "Body", todo[1].key >>))

\* Step 3 of batch_update_scene: the loop over request.constraint_updates
RECURSIVE MergeConstraintUpdates(_, _, _)
MergeConstraintUpdates(context, todo, updated_constraints) ==
    IF todo = << >>
    THEN [ http_error |-> FALSE, updated_constraints |-> updated_constraints ]
    ELSE IF ~DictHas(context.scene_state[1].constraints, todo[1].key)
    THEN [ http_error |-> TRUE, updated_constraints |-> updated_constraints ]
    ELSE MergeConstraintUpdates(context, Tail(todo),
             DictSet(updated_constraints, todo[1].key,
                     validate_and_merge_constraint_update(context, todo[1].key, todo[1].val)))

\* Steps 4 and 5 of batch_update_scene, and the response
BatchRecord(contexts, request, context, updated_bodies, updated_constraints) ==
    Stored(contexts, request.conversation_id,
           snapshot_after_update(
               apply_scene_updates(context, updated_bodies, updated_constraints),
               << "batch_update", Len(updated_bodies), Len(updated_constraints) >>,
               [i \in DOMAIN updated_bodies |-> updated_bodies[i].key],
               [i \in DOMAIN updated_constraints |-> updated_constraints[i].key]))

\* Step 3 of batch_update_scene on: b is what the loop over the bodies left
BatchConstraints(contexts, request, b, c) ==
    IF c.http_error
    THEN [ contexts |-> [contexts EXCEPT ![request.conversation_id] = b.context],
           result   |-> Raised(b.context, "Constraint not found") ]
    ELSE BatchRecord(contexts, request, b.context, b.updated_bodies, c.updated_constraints)

\* Step 2 of batch_update_scene on
BatchBodies(contexts, request, b) ==
    IF b.http_error
    THEN [ contexts |-> [contexts EXCEPT ![request.conversation_id] = b.context],
           result   |-> Raised(b.context, "Body not found") ]
    ELSE BatchConstraints(contexts, request, b,
             MergeConstraintUpdates(b.context, request.constraint_updates, << >>))

\* batch_update_scene with resimulate = false
batch_update_scene(contexts, request) ==
    IF request.conversation_id \notin DOMAIN contexts
    THEN [ contexts |-> contexts, result |-> Raised(None, "Conversation not found") ]
    ELSE BatchBodies(contexts, request,
             MergeBodyUpdates(batch_ensure_scene_initialized(contexts[request.conversation_id]),
                              request.body_updates, << >>, << >>))

\* ------------------------------------------------------------------------
\* build_physics_scene, entry (lines 425-447)
\* ------------------------------------------------------------------------

\* fallback scale 0.01 m/px of _initial_mapping, in length units per pixel
DefaultScale == 2

\* fallback image size of _initial_mapping, in pixels
DefaultImageWidth == 800

DefaultImageHeight == 600

\* _initial_mapping(image_meta, options); Python "x or y" skips a zero
initial_mapping(image_meta, options) ==
    LET default_scale == IF options.scale_m_per_px # None /\ options.scale_m_per_px[1] # 0
                         THEN options.scale_m_per_px[1] ELSE DefaultScale
        w == OrElse(image_meta.width_px, 0)
        h == OrElse(image_meta.height_px, 0)
        width  == Px(IF w # 0 THEN w ELSE DefaultImageWidth)
        height == Px(IF h # 0 THEN h ELSE DefaultImageHeight)
        origin_px == IF options.origin_px # None THEN options.origin_px[1]
                     ELSE << width \div 2, height \div 2 >>
    IN [ origin_px |-> origin_px, scale_m_per_px |-> default_scale ]

\* _initial_world(options)
initial_world(options) ==
    LET g == options.gravity_m_s2
        t == options.time_step_s
    IN [ gravity_m_s2 |-> IF g # None /\ g[1] # 0 THEN g[1] ELSE DefaultWorld.gravity_m_s2,
         time_step_s  |-> IF t # None /\ t[1] # 0 THEN t[1] ELSE DefaultWorld.time_step_s ]

\* build_entry without the reset: mapping and image metadata are stored, the
\* document the conversation already holds is kept
build_entry_keep_document(contexts, input) ==
    update_context(contexts, input.conversation_id,
                   [ contexts[input.conversation_id] EXCEPT
                       !.image_metadata = Some(input.image),
                       !.mapping = Some(initial_mapping(input.image, input.options)),
                       !.scene = None ])

\* lines 430-442 for a conversation that exists: reset and seed the document,
\* store the image metadata, put the context back into the store
build_entry(contexts, input) ==
    LET mapping == Some(initial_mapping(input.image, input.options))
        world == Some(initial_world(input.options))
        reset == reset_scene_state(contexts[input.conversation_id], world, mapping)
        context == [ reset EXCEPT !.image_metadata = Some(input.image),
                                  !.mapping = mapping,
                                  !.scene = None ]
    IN update_context(contexts, input.conversation_id, context)

\* ------------------------------------------------------------------------
\* State
\* ------------------------------------------------------------------------

VARIABLES
    store,   \* ContextStore._contexts
    last,    \* the latest request: its operation, input and what the caller got
    gap,     \* per conversation: ids of the constraints whose creating create_rope
             \* call named a body that did not exist at call time
    edits,   \* per conversation: successful edits since the document was last reset
    loop,    \* the running build_physics_scene call (its local variables)
    conc,    \* what suspended requests hold: the contexts deleted from the store
             \* that they still reference, the batch update awaiting the engine,
             \* the edit requests issued and not yet run
    built,   \* the invocations of build_scene_universal made so far
    checked  \* the scenes and entity lists handed to the validators so far,
             \* each with what the validator answered

vars == << store, last, gap, edits, loop, conc, built, checked >>

\* get_context_store() resolving the store as it was when the requests that
\* are running were issued
get_context_store_at_issue(contexts) == conc.issued_from

\* get_context_store(): the one global store, as it is when the handler runs
get_context_store(contexts) == contexts

\* conversation ids requests may name; "c2" is never registered
ConvIds == { "c1", "c2" }

Registered == { "c1" }

\* the locals of a build_physics_scene call that has not started
NoBuild ==
    [ pc |-> "idle", conversation_id |-> "", pillow |-> FALSE, max_iterations |-> 0,
      iteration |-> 0, transcript |-> << >>, tool_records |-> << >>, encoded |-> None,
      final_summary |-> "", error |-> "", scene |-> None, warnings |-> << >>,
      log |-> << >>, rounds_with_calls |-> 0, calls_received |-> 0,
      round |-> None, oracle_failures |-> 0, input |-> None, entry_bodies |-> 0 ]

\* no request is suspended, none was issued: nothing held beside the
\* store, no batch update awaiting the engine
NoConc ==
    [ held |-> << >>, deleted |-> {}, requests |-> 0, interleaved |-> 0,
      batch |-> [ pc |-> "idle" ], pending |-> {}, issued |-> {}, issued_from |-> << >> ]

NoRequest ==
    [ op |-> "none", input |-> None, raised |-> FALSE, error |-> "", scene |-> None,
      body_ids |-> << >>, changed |-> FALSE ]

\* ------------------------------------------------------------------------
\* Inputs of the edit requests
\* ------------------------------------------------------------------------

\* image metadata: the 40x20 px image a conversation starts with, and the
\* images build requests carry (5 and 6 pixels wide)
StartImage == [ width_px |-> Some(40), height_px |-> Some(20) ]

ImageChoices ==
    { [ width_px |-> Some(5), height_px |-> Some(20) ],
      [ width_px |-> Some(6), height_px |-> Some(20) ] }

BlockBase ==
    [ conversation_id |-> "c1", body_id |-> Some("a"), position_m |-> << 0, 0 >>,
      size_m |-> << 8, 4 >>, body_type |-> "dynamic", angle_rad |-> None,
      velocity_m_s |-> None, mass_kg |-> Some(2), friction |-> None,
      restitution |-> None, density_kg_m3 |-> None, notes |-> None ]

CreateBlockInputs ==
    { BlockBase,
      [ BlockBase EXCEPT !.body_id = None, !.position_m = << 100, 0 >>,
                         !.body_type = "static", !.mass_kg = None, !.friction = Some(1) ],
      [ BlockBase EXCEPT !.body_id = Some("b"), !.size_m = << 200, 4 >>, !.mass_kg = None ],
      [ BlockBase EXCEPT !.size_m = << 0, 4 >> ],
      [ BlockBase EXCEPT !.body_id = Some("block_2") ],
      [ BlockBase EXCEPT !.conversation_id = "c2" ] }

ModifyBase ==
    [ conversation_id |-> "c1", body_id |-> "a", position_m |-> None, size_m |-> None,
      body_type |-> None, angle_rad |-> None, mass_kg |-> None, velocity_m_s |-> None,
      friction |-> None, restitution |-> None, density_kg_m3 |-> None, notes |-> None ]

ModifyBlockInputs ==
    { [ ModifyBase EXCEPT !.position_m = Some(<< -100, 30 >>) ],
      [ ModifyBase EXCEPT !.position_m = Some(<< 10, 0 >>), !.size_m = Some(<< 0, 4 >>) ],
      [ ModifyBase EXCEPT !.size_m = Some(<< 20, 100 >>) ],
      [ ModifyBase EXCEPT !.body_id = "b", !.mass_kg = Some(3), !.body_type = Some("static") ],
      [ ModifyBase EXCEPT !.body_id = "p", !.size_m = Some(<< 4, 4 >>) ],
      [ ModifyBase EXCEPT !.body_id = "ghost", !.position_m = Some(<< 10, 0 >>) ],
      [ ModifyBase EXCEPT !.conversation_id = "c2" ] }

RemoveBlockInputs ==
    { [ conversation_id |-> "c1", body_id |-> "a" ],
      [ conversation_id |-> "c1", body_id |-> "ghost" ],
      [ conversation_id |-> "c2", body_id |-> "a" ] }

PulleyBase ==
    [ conversation_id |-> "c1", pulley_id |-> Some("p"), center_m |-> << 0, 10 >>,
      radius_m |-> 4, axle_radius_m |-> None, axle_body_id |-> None, notes |-> None ]

CreatePulleyInputs ==
    { PulleyBase,
      [ PulleyBase EXCEPT !.pulley_id = None, !.axle_radius_m = Some(1) ],
      [ PulleyBase EXCEPT !.radius_m = 0 ],
      [ PulleyBase EXCEPT !.conversation_id = "c2" ] }

RopeBase ==
    [ conversation_id |-> "c1", constraint_id |-> None, body_a |-> "a", body_b |-> "b",
      anchor_a_m |-> None, anchor_b_m |-> None, length_m |-> Some(10),
      stiffness |-> None, damping |-> None, notes |-> None ]

CreateRopeInputs ==
    { RopeBase,
      [ RopeBase EXCEPT !.body_b = "a" ],
      [ RopeBase EXCEPT !.constraint_id = Some("r"), !.body_b = "ghost", !.stiffness = Some(1) ],
      [ RopeBase EXCEPT !.length_m = Some(-1) ],
      [ RopeBase EXCEPT !.conversation_id = "c2" ] }

SetWorldInputs ==
    { [ conversation_id |-> "c1", gravity_m_s2 |-> 162, time_step_s |-> 16 ],
      [ conversation_id |-> "c1", gravity_m_s2 |-> -981, time_step_s |-> 200 ],
      [ conversation_id |-> "c2", gravity_m_s2 |-> 981, time_step_s |-> 16 ] }

SetMappingInputs ==
    { [ conversation_id |-> "c1", origin_px |-> << Px(20), Px(10) >>, scale_m_per_px |-> 2 ],
      [ conversation_id |-> "c1", origin_px |-> << 0, 0 >>, scale_m_per_px |-> 4 ],
      [ conversation_id |-> "c1", origin_px |-> << 0, 0 >>, scale_m_per_px |-> 0 ],
      [ conversation_id |-> "c2", origin_px |-> << 0, 0 >>, scale_m_per_px |-> 2 ] }

BodyUpdate(position_m, mass_kg) ==
    [ position_m |-> position_m, mass_kg |-> mass_kg, id |-> None ]

ConstraintUpdate(rope_length_m, body_b) == [ rope_length_m |-> rope_length_m, body_b |-> body_b ]

BatchBase ==
    [ conversation_id |-> "c1", body_updates |-> << >>, constraint_updates |-> << >>,
      resimulate |-> FALSE ]

BatchRequests ==
    { [ BatchBase EXCEPT !.body_updates =
          << [key |-> "a", val |-> BodyUpdate(Some(<< 100, 0 >>), Some(5))] >> ],
      [ BatchBase EXCEPT !.body_updates =
          << [key |-> "b", val |-> BodyUpdate(Some(<< 0, 0 >>), None)],
             [key |-> "ghost", val |-> BodyUpdate(None, Some(1))] >> ],
      [ BatchBase EXCEPT !.body_updates =
          << [key |-> "a", val |-> BodyUpdate(Some(<< >>), None)] >>,
          !.constraint_updates =
          << [key |-> "rope_1", val |-> ConstraintUpdate(Some(6), None)] >> ],
      [ BatchBase EXCEPT !.constraint_updates =
          << [key |-> "r", val |-> ConstraintUpdate(None, Some("nobody"))] >> ],
      [ BatchBase EXCEPT !.body_updates =
          << [key |-> "a", val |-> [ BodyUpdate(None, None) EXCEPT !.id = Some("b") ]] >> ],
      [ BatchBase EXCEPT !.conversation_id = "c2" ] }

BuildOptionsBase ==
    [ scale_m_per_px |-> None, origin_px |-> None, gravity_m_s2 |-> None,
      time_step_s |-> None, max_tool_iterations |-> 2 ]

\* image and options of a build request: no option given (5 px wide image),
\* mapping and world given, and values no input model checks (options is a
\* plain dict)
BuildRequests ==
    { [ image   |-> [ width_px |-> Some(5), height_px |-> Some(20) ],
        options |-> BuildOptionsBase ],
      [ image   |-> [ width_px |-> Some(6), height_px |-> Some(20) ],
        options |-> [ BuildOptionsBase EXCEPT
                        !.scale_m_per_px = Some(4), !.origin_px = Some(<< 0, 0 >>),
                        !.gravity_m_s2 = Some(162), !.time_step_s = Some(8) ] ],
      [ image   |-> [ width_px |-> Some(6), height_px |-> Some(20) ],
        options |-> [ BuildOptionsBase EXCEPT
                        !.scale_m_per_px = Some(-2), !.gravity_m_s2 = Some(-981),
                        !.time_step_s = Some(200) ] ] }

\* ------------------------------------------------------------------------
\* Edit requests as actions
\* ------------------------------------------------------------------------

HistoryLen(conversation_id) ==
    IF conversation_id \in DOMAIN store THEN Len(store[conversation_id].scene_history) ELSE 0

BodyCount(conversation_id) ==
    IF conversation_id \in DOMAIN store /\ store[conversation_id].scene_state # None
    THEN Len(store[conversation_id].scene_state[1].bodies) ELSE 0

\* the bodies dict of a conversation as a request finds it
LiveBodies(contexts, conversation_id) ==
    IF conversation_id \in DOMAIN contexts /\ contexts[conversation_id].scene_state # None
    THEN contexts[conversation_id].scene_state[1].bodies ELSE << >>

\* A request that raised and left the store as it was leads to a state that
\* differs from its predecessor in "last" only, with the same futures; the
\* requests that follow are explored from the predecessor.
Ready == ~(last.raised /\ ~last.changed)

\* bookkeeping of the ghost variables after a request
Count(conversation_id, result) ==
    IF result.raised THEN edits
    ELSE [ edits EXCEPT ![conversation_id] = @ + 1 ]

\* the bodies named by a create_rope request that exist when it is made
RopeEndsKnown(input) ==
    LET known == DictKeys(LiveBodies(store, input.conversation_id))
    IN input.body_a \in known /\ input.body_b \in known

\* a request to a tool of the catalogue: what it does to the store and what
\* the caller gets
ToolRequestStep(name, input) ==
    /\ HistoryLen("c1") < MaxHistory
    /\ \E call \in { CallTool(get_context_store(store), name, input) } :
          /\ store' = call.contexts
          /\ last' = [ op |-> name, input |-> Some(input), raised |-> call.result.raised,
                       error |-> call.result.error, scene |-> call.result.scene,
                       body_ids |-> call.result.updated_body_ids,
                       changed |-> call.contexts # store ]
          /\ edits' = Count(input.conversation_id, call.result)
          /\ gap' = IF name = "create_rope" /\ ~call.result.raised
                    THEN [ gap EXCEPT ![input.conversation_id] =
                             IF RopeEndsKnown(input)
                             THEN @ \ { call.result.updated_constraint_ids[1] }
                             ELSE @ \cup { call.result.updated_constraint_ids[1] } ]
                    ELSE gap

ToolRequest(name, input) ==
    /\ ToolRequestStep(name, input)
    /\ UNCHANGED << loop, conc, built, checked >>

CreateBlock ==
    \E input \in CreateBlockInputs :
        Ready /\ BodyCount("c1") < MaxBodies /\ ToolRequest("create_block", input)

ModifyBlock == \E input \in ModifyBlockInputs : Ready /\ ToolRequest("modify_block", input)

RemoveBlock == \E input \in RemoveBlockInputs : Ready /\ ToolRequest("remove_block", input)

CreatePulley ==
    \E input \in CreatePulleyInputs :
        Ready /\ BodyCount("c1") < MaxBodies /\ ToolRequest("create_pulley", input)

CreateRope == \E input \in CreateRopeInputs : Ready /\ ToolRequest("create_rope", input)

SetWorld == \E input \in SetWorldInputs : Ready /\ ToolRequest("set_world", input)

SetMapping == \E input \in SetMappingInputs : Ready /\ ToolRequest("set_mapping", input)

BatchUpdate ==
    \E request \in BatchRequests :
        /\ Ready
        /\ HistoryLen("c1") < MaxHistory
        /\ \E call \in { batch_update_scene(store, request) } :
              /\ store' = call.contexts
              /\ last' = [ op |-> "batch_update", input |-> Some(request),
                           raised |-> call.result.raised, error |-> call.result.error,
                           scene |-> call.result.scene,
                           body_ids |-> call.result.updated_body_ids,
                           changed |-> call.contexts # store ]
              /\ edits' = Count(request.conversation_id, call.result)
        /\ UNCHANGED << gap, loop, conc, built, checked >>

\* build_physics_scene for an image id that was never uploaded: the document is
\* reset (lines 430-442), then get_uploaded_image_bytes raises (lines 444-447)
BuildImageMissing ==
    \E request \in BuildRequests :
        LET input == [ conversation_id |-> "c1", image |-> request.image,
                       options |-> request.options ]
        IN /\ Ready
           /\ store' = build_entry(store, input)
           /\ last' = [ op |-> "build_physics_scene", input |-> Some(input), raised |-> TRUE,
                        error |-> "image not found", scene |-> None,
                        body_ids |-> << >>, changed |-> build_entry(store, input) # store ]
           /\ edits' = [ edits EXCEPT !["c1"] = 0 ]
           /\ gap' = [ gap EXCEPT !["c1"] = {} ]
           /\ UNCHANGED << loop, conc, built, checked >>

InitEdit ==
    /\ store = [ c \in Registered |-> NewContext(Some(StartImage)) ]
    /\ last = NoRequest
    /\ gap = [ c \in ConvIds |-> {} ]
    /\ edits = [ c \in ConvIds |-> 0 ]
    /\ loop = NoBuild
    /\ conc = NoConc
    /\ built = << >>
    /\ checked = << >>

NextEdit ==
    \/ CreateBlock
    \/ ModifyBlock
    \/ RemoveBlock
    \/ CreatePulley
    \/ CreateRope
    \/ SetWorld
    \/ SetMapping
    \/ BatchUpdate
    \/ BuildImageMissing

SpecEdit == InitEdit /\ [][NextEdit]_vars

\* ------------------------------------------------------------------------
\* build_physics_scene: the tool-calling loop (lines 449-724)
\* ------------------------------------------------------------------------

\* largest max_tool_iterations option a build request carries in the model
MaxIterations == 2

\* longest list of tool calls the oracle returns in one round
MaxCallsPerRound == 2

\* final_summary of the for-else branch
IterationLimitSummary == "Iteration limit reached; returning best scene."

\* raw_arguments of a tool call: a JSON text that json.loads parses to value,
\* or one on which it raises JSONDecodeError
Json(value) == [ parses |-> TRUE, value |-> Some(value) ]

BadJson == [ parses |-> FALSE, value |-> None ]

\* _render_scene_image: the PNG of a scene, or None where Pillow is missing or
\* canvas.save raised (pillow: the image can be produced)
render_scene_image(scene, pillow) == IF pillow THEN Some([ png_of |-> scene ]) ELSE None

\* ConversationContext.add_tool_call
add_tool_call(context, tool_name, failed) ==
    [ context EXCEPT !.tool_calls = Append(@, [ tool_name |-> tool_name, failed |-> failed ]) ]

TranscriptEntry(kind, tool, scene, image) ==
    [ kind |-> kind, tool |-> tool, scene |-> scene, image |-> image ]

\* what one tool call did, kept beside the run for the properties:
\* how it ended, whether the document differs, what it appended
CallLog(tool_call, ending, before, after, st0, st1) ==
    [ name |-> tool_call.name, ending |-> ending,
      document_changed |->
          \/ before.scene_state # after.scene_state
          \/ before.scene_history # after.scene_history,
      tool_errors |-> Len(SelectSeq(st1.transcript, LAMBDA e : e.kind = "TOOL_ERROR"))
                      - Len(SelectSeq(st0.transcript, LAMBDA e : e.kind = "TOOL_ERROR")),
      error_records |-> Len(SelectSeq(st1.tool_records, LAMBDA r : r.failed))
                        - Len(SelectSeq(st0.tool_records, LAMBDA r : r.failed)) ]

\* lines 547-550 and 555-557: an exception raised outside the try block leaves
\* build_physics_scene
AbortBuild(st, conversation_id, tool_call, error, ending) ==
    [ st EXCEPT !.raised = TRUE, !.error = error,
                !.log = Append(@, CallLog(tool_call, ending, st.contexts[conversation_id],
                                          st.contexts[conversation_id], st, st)) ]

\* lines 565-590: the except branch
ToolError(st, conversation_id, tool_call, call) ==
    LET st1 == [ st EXCEPT
                   !.contexts = [ call.contexts EXCEPT ![conversation_id] =
                                    add_tool_call(@, tool_call.name, TRUE) ],
                   !.transcript = Append(@, TranscriptEntry("TOOL_ERROR", tool_call.name,
                                                            None, None)),
                   !.tool_records = Append(@, [ tool |-> tool_call.name, failed |-> TRUE,
                                                updated_body_ids |-> << >>,
                                                updated_constraint_ids |-> << >> ]) ]
    IN [ st1 EXCEPT !.log = Append(@, CallLog(tool_call,
             IF call.result.error = "ValidationError" THEN "invalid" ELSE "exec_raised",
             st.contexts[conversation_id], call.contexts[conversation_id], st, st1)) ]

\* lines 592-647: render, transcript entry and record of a call that returned
ToolResult(st, conversation_id, tool_call, call, encoded) ==
    IF encoded = None
    THEN \* "encoded" is read before any render assigned it: UnboundLocalError
         [ st EXCEPT !.contexts = call.contexts, !.raised = TRUE,
                     !.error = "UnboundLocalError",
                     !.log = Append(@, CallLog(tool_call, "render_unbound",
                                               st.contexts[conversation_id],
                                               call.contexts[conversation_id], st, st)) ]
    ELSE
    LET st1 == [ st EXCEPT
                   !.contexts = update_context(call.contexts, conversation_id,
                                    add_tool_call(call.contexts[conversation_id],
                                                  tool_call.name, FALSE)),
                   !.encoded = encoded,
                   !.transcript = Append(@, TranscriptEntry("TOOL_RESULT", tool_call.name,
                                                            call.result.scene, encoded)),
                   !.tool_records = Append(@,
                       [ tool |-> tool_call.name, failed |-> FALSE,
                         updated_body_ids |-> call.result.updated_body_ids,
                         updated_constraint_ids |-> call.result.updated_constraint_ids ]) ]
    IN [ st1 EXCEPT !.log = Append(@, CallLog(tool_call, "ok", st.contexts[conversation_id],
                                              call.contexts[conversation_id], st, st1)) ]

\* lines 559-647: the tool has been called
AfterCall(st, conversation_id, tool_call, pillow, call) ==
    IF call.result.raised
    THEN ToolError(st, conversation_id, tool_call, call)
    ELSE ToolResult(st, conversation_id, tool_call, call,
                    IF render_scene_image(call.result.scene[1], pillow) # None
                    THEN render_scene_image(call.result.scene[1], pillow)
                    ELSE st.encoded)

\* lines 559-561: the tool function resolved its context in the store (the
\* ids st.registered); the run goes on with the context object it holds
ExecRegistered(st, conversation_id, tool_call, pillow, call) ==
    AfterCall([ st EXCEPT !.registered = DOMAIN call.contexts ],
              conversation_id, tool_call, pillow,
              [ call EXCEPT !.contexts = Heap(call.contexts, st.contexts) ])

\* ExecToolCall without line 552: the conversation_id of the oracle's
\* arguments is left as the oracle wrote it
ExecToolCall_as_oracle_named(st, conversation_id, tool_call, pillow) ==
    IF ~tool_call.raw_arguments.parses
    THEN AbortBuild(st, conversation_id, tool_call,
                    "Tool call arguments invalid JSON", "bad_json")
    ELSE IF tool_call.name \notin SceneEditToolNames
    THEN AbortBuild(st, conversation_id, tool_call, "Unsupported tool", "unsupported")
    ELSE ExecRegistered(st, conversation_id, tool_call, pillow,
                        CallTool(Restrict(st.contexts, st.registered), tool_call.name,
                                 tool_call.raw_arguments.value[1]))

\* lines 530-647: one tool call of a round. st holds the contexts within reach
\* (st.registered: the ids of the store) and the locals of
\* build_physics_scene; st.raised is set when an exception leaves the loop
ExecToolCall(st, conversation_id, tool_call, pillow) ==
    IF ~tool_call.raw_arguments.parses
    THEN AbortBuild(st, conversation_id, tool_call,
                    "Tool call arguments invalid JSON", "bad_json")
    ELSE IF tool_call.name \notin SceneEditToolNames
    THEN AbortBuild(st, conversation_id, tool_call, "Unsupported tool", "unsupported")
    ELSE ExecRegistered(st, conversation_id, tool_call, pillow,
                        CallTool(Restrict(st.contexts, st.registered), tool_call.name,
                                 [ tool_call.raw_arguments.value[1] EXCEPT
                                     !.conversation_id = conversation_id ]))

\* lines 528-649: the tool calls of one round, in order, until one raises
RECURSIVE ExecToolCalls(_, _, _, _)
ExecToolCalls(st, conversation_id, tool_calls, pillow) ==
    IF tool_calls = << >> \/ st.raised THEN st
    ELSE ExecToolCalls(ExecToolCall(st, conversation_id, tool_calls[1], pillow),
                       conversation_id, Tail(tool_calls), pillow)

\* lines 674-724: final snapshot and render, pipeline state, the returned output
finish_build(contexts, conversation_id, tool_records) ==
    LET s == scene_snapshot(contexts[conversation_id])
        context == [ s.context EXCEPT !.scene = Some(s.snapshot) ]
    IN [ contexts |-> update_context(contexts, conversation_id, context),
         scene    |-> s.snapshot,
         warnings |-> IF tool_records = << >> THEN << "no scene editing tools invoked" >>
                      ELSE << >> ]

\* assistant_text.strip() for the texts of the model
Strip(text) ==
    CASE text = " " -> ""
      [] text = " done " -> "done"
      [] OTHER -> text

\* the tool calls the oracle may issue
ToolCallChoices ==
    { [ name |-> "create_block",
        raw_arguments |-> Json([ BlockBase EXCEPT !.conversation_id = "c2" ]) ],
      [ name |-> "create_block",
        raw_arguments |-> Json([ BlockBase EXCEPT !.size_m = << 0, 4 >> ]) ],
      [ name |-> "modify_block",
        raw_arguments |-> Json([ ModifyBase EXCEPT !.position_m = Some(<< 10, 0 >>),
                                                   !.size_m = Some(<< 0, 4 >>) ]) ],
      [ name |-> "launch_rocket", raw_arguments |-> Json([ conversation_id |-> "c1" ]) ],
      [ name |-> "create_block", raw_arguments |-> BadJson ] }

RECURSIVE CallSeqs(_)
CallSeqs(n) ==
    IF n = 0 THEN { << >> }
    ELSE CallSeqs(n - 1) \cup
         { Append(s, c) : s \in { t \in CallSeqs(n - 1) : Len(t) = n - 1 }, c \in ToolCallChoices }

\* a tool call that takes the block of the other calls out of the document
RemoveCall ==
    [ name |-> "remove_block",
      raw_arguments |-> Json([ conversation_id |-> "c1", body_id |-> "a" ]) ]

\* what one responses.create call may return: tool calls and output_text
OracleResponses ==
    { [ tool_calls |-> tc, output_text |-> text ] :
          tc \in CallSeqs(MaxCallsPerRound), text \in { "", "done" } }
    \cup { [ tool_calls |-> << >>, output_text |-> text ] : text \in { " ", " done " } }
    \cup { [ tool_calls |-> << RemoveCall >>, output_text |-> "" ] }

\* the contexts as a step of a request leaves them: those stored under the
\* registered ids are the store, the others stay with the suspended requests
Leave(contexts, registered) ==
    /\ store' = Restrict(contexts, registered)
    /\ conc' = [ conc EXCEPT !.held = Restrict(contexts, DOMAIN contexts \ registered) ]

\* the loop is left (break, or range exhausted with the for-else summary):
\* lines 674-724 run and the call returns; line 705 puts the context the run
\* holds into the store
Return(contexts, registered, b) ==
    LET f == finish_build(contexts, b.conversation_id, b.tool_records)
    IN /\ Leave(f.contexts, registered \cup { b.conversation_id })
       /\ loop' = [ b EXCEPT !.pc = "returned", !.scene = Some(f.scene),
                             !.warnings = f.warnings ]

\* the top of "for iteration in range(max_iterations)": the next
\* responses.create is awaited, or the for-else branch runs
NextIteration(contexts, registered, b) ==
    IF b.iteration < b.max_iterations
    THEN /\ Leave(contexts, registered)
         /\ loop' = [ b EXCEPT !.pc = "awaiting_oracle" ]
    ELSE Return(contexts, registered,
                [ b EXCEPT !.final_summary = IF @ # "" THEN @ ELSE IterationLimitSummary ])

\* build_physics_scene from its entry to the first await (or to its end)
BuildStartWith(conversation_id, request, max_iterations, pillow) ==
        LET input == [ conversation_id |-> conversation_id, image |-> request.image,
                       options |-> [ request.options EXCEPT
                                       !.max_tool_iterations = max_iterations ] ]
            b == [ NoBuild EXCEPT !.conversation_id = conversation_id, !.pillow = pillow,
                                  !.input = Some(input),
                                  !.entry_bodies = Len(LiveBodies(store, conversation_id)),
                                  !.max_iterations = input.options.max_tool_iterations,
                                  !.transcript = << TranscriptEntry("system", "", None, None),
                                                    TranscriptEntry("diagram", "", None, None) >> ]
        IN /\ loop.pc = "idle"
           /\ IF conversation_id \notin DOMAIN store
              THEN /\ loop' = [ NoBuild EXCEPT !.pc = "failed",
                                               !.conversation_id = conversation_id,
                                               !.error = "Conversation not found" ]
                   /\ UNCHANGED << store, conc >>
              ELSE NextIteration(Heap(build_entry(store, input), conc.held), DOMAIN store, b)
           /\ UNCHANGED << last, gap, edits, built, checked >>

BuildStart ==
    \E conversation_id \in ConvIds, request \in BuildRequests,
       max_iterations \in 0..MaxIterations, pillow \in BOOLEAN :
        BuildStartWith(conversation_id, request, max_iterations, pillow)

\* lines 649-650: the tool calls of the round are done (or one of them raised)
RoundDone(b, st) ==
    IF st.raised
    THEN /\ Leave(st.contexts, st.registered)
         /\ loop' = [ b EXCEPT !.transcript = st.transcript, !.tool_records = st.tool_records,
                               !.encoded = st.encoded, !.log = st.log,
                               !.pc = "failed", !.error = st.error ]
    ELSE NextIteration(st.contexts, st.registered,
                       [ b EXCEPT !.transcript = st.transcript,
                                  !.tool_records = st.tool_records,
                                  !.encoded = st.encoded, !.log = st.log ])

\* a response without tool calls whose text is never taken as the final summary
NoToolCalls_ignore_text(b, assistant_text) ==
    NextIteration(Heap(store, conc.held), DOMAIN store, b)

\* lines 651-664: a response without tool calls
NoToolCalls(b, assistant_text) ==
    IF Strip(assistant_text) # ""
    THEN Return(Heap(store, conc.held), DOMAIN store, [ b EXCEPT
             !.final_summary = Strip(assistant_text),
             !.transcript = Append(@, TranscriptEntry("FINAL_SUMMARY", "", None, None)) ])
    ELSE NextIteration(Heap(store, conc.held), DOMAIN store, b)

\* responses.create returns: the rest of the iteration, up to the next await
\* or to the end of the call (saved: canvas.save succeeds for the renders of
\* this round)
OracleRound(response, saved) ==
        /\ loop.pc = "awaiting_oracle"
        /\ \E b \in { [ loop EXCEPT !.iteration = @ + 1,
                                    !.rounds_with_calls =
                                        IF response.tool_calls # << >> THEN @ + 1 ELSE @,
                                    !.calls_received = @ + Len(response.tool_calls),
                                    !.round = Some([ tool_calls |-> Len(response.tool_calls),
                                                     output_text |-> response.output_text ]) ] } :
              IF response.tool_calls # << >>
              THEN RoundDone(b, ExecToolCalls(
                                    [ contexts |-> Heap(store, conc.held),
                                      registered |-> DOMAIN store,
                                      transcript |-> b.transcript,
                                      tool_records |-> b.tool_records, encoded |-> b.encoded,
                                      log |-> b.log, raised |-> FALSE, error |-> "" ],
                                    b.conversation_id, response.tool_calls,
                                    b.pillow /\ saved))
              ELSE NoToolCalls(b, response.output_text)
        /\ UNCHANGED << last, gap, edits, built, checked >>

OracleResponds ==
    \E response \in OracleResponses, saved \in BOOLEAN : OracleRound(response, saved)

\* responses.create with the call retried after it raised
oracle_error_retry(b) == [ b EXCEPT !.pc = "awaiting_oracle", !.error = "oracle call failed" ]

\* line 508: "await client.responses.create" raises (timeout, API error); no
\* handler surrounds it, the exception leaves build_physics_scene
oracle_error(b) == [ b EXCEPT !.pc = "failed", !.error = "oracle call failed" ]

\* the oracle call of the round fails
OracleFails ==
    /\ loop.pc = "awaiting_oracle"
    /\ loop' = [ oracle_error(loop) EXCEPT !.oracle_failures = @ + 1, !.round = None ]
    /\ UNCHANGED << store, last, gap, edits, conc, built, checked >>

\* a conversation as earlier requests left it: a block "old" and a rope on it
EarlierContext ==
    create_rope(
        create_block(NewContext(Some([ width_px |-> None, height_px |-> None ])),
                     [ BlockBase EXCEPT !.body_id = Some("old") ]).context,
        [ RopeBase EXCEPT !.constraint_id = Some("old_rope"),
                          !.body_a = "old", !.body_b = "old" ]).context

InitLoop ==
    /\ store \in { [ c \in Registered |-> context ] :
                      context \in { NewContext(Some([ width_px |-> None, height_px |-> None ])),
                                    EarlierContext } }
    /\ last = NoRequest
    /\ gap = [ c \in ConvIds |-> {} ]
    /\ edits = [ c \in ConvIds |-> 0 ]
    /\ loop = NoBuild
    /\ conc = NoConc
    /\ built = << >>
    /\ checked = << >>

NextLoop ==
    \/ BuildStart
    \/ OracleResponds
    \/ OracleFails

SpecLoop == InitLoop /\ [][NextLoop]_vars

\* ------------------------------------------------------------------------
\* Requests that run while another request is suspended on an external call
\* (the asyncio event loop runs one handler at a time, up to its next await)
\* ------------------------------------------------------------------------

\* most requests made beside the build in one behaviour
MaxRequests == 2

\* the build request of the interleavings, and what the oracle answers to it
ConcRequest == [ image |-> StartImage, options |-> BuildOptionsBase ]

ConcResponses ==
    { [ tool_calls |-> << [ name |-> "create_block", raw_arguments |-> Json(BlockBase) ] >>,
        output_text |-> "" ],
      [ tool_calls |-> << >>, output_text |-> "done" ],
      [ tool_calls |-> << >>, output_text |-> "" ] }

\* the edit requests made beside the build
ConcEdits ==
    { [ name |-> "create_block", input |-> [ BlockBase EXCEPT !.body_id = Some("b") ] ],
      [ name |-> "remove_block", input |-> [ conversation_id |-> "c1", body_id |-> "a" ] ] }

\* batch updates with resimulate = true
ResimRequests ==
    { [ BatchBase EXCEPT !.resimulate = TRUE ],
      [ BatchBase EXCEPT !.resimulate = TRUE,
                         !.body_updates =
                             << [key |-> "ghost", val |-> BodyUpdate(None, Some(1))] >> ] }

\* the build is suspended on its oracle call for the conversation
BuildSuspendedOn(conversation_id) ==
    loop.pc = "awaiting_oracle" /\ loop.conversation_id = conversation_id

\* the batch update is suspended on its engine call for the conversation
BatchSuspendedOn(conversation_id) ==
    conc.batch.pc = "awaiting_engine" /\ conc.batch.conversation_id = conversation_id

\* bookkeeping: one more request beside the build, made while the build was
\* suspended on the same conversation or not
Beside(c, conversation_id) ==
    [ c EXCEPT !.requests = @ + 1,
               !.interleaved = IF BuildSuspendedOn(conversation_id) THEN @ + 1 ELSE @ ]

ConcBuildStart ==
    \E max_iterations \in 1..MaxIterations :
        BuildStartWith("c1", ConcRequest, max_iterations, TRUE)

ConcOracleResponds ==
    \E response \in ConcResponses, saved \in BOOLEAN : OracleRound(response, saved)

\* an edit request beside the build
ConcEdit ==
    \E request \in ConcEdits :
        /\ conc.requests < MaxRequests
        /\ ToolRequestStep(request.name, request.input)
        /\ conc' = Beside(conc, request.input.conversation_id)
        /\ UNCHANGED << loop, built, checked >>

\* a second build_physics_scene call on the conversation, for an image id
\* that was never uploaded: lines 425-442 reset the document, line 445 raises
SecondBuildEntry ==
    /\ conc.requests < MaxRequests
    /\ "c1" \in DOMAIN store
    /\ \E input \in { [ conversation_id |-> "c1", image |-> ConcRequest.image,
                        options |-> ConcRequest.options ] } :
          /\ store' = build_entry(store, input)
          /\ last' = [ op |-> "build_physics_scene", input |-> Some(input), raised |-> TRUE,
                       error |-> "image not found", scene |-> None,
                       body_ids |-> << >>, changed |-> build_entry(store, input) # store ]
    /\ edits' = [ edits EXCEPT !["c1"] = 0 ]
    /\ gap' = [ gap EXCEPT !["c1"] = {} ]
    /\ conc' = Beside(conc, "c1")
    /\ UNCHANGED << loop, built, checked >>

\* DELETE of a conversation: ContextStore.delete_context; a request suspended
\* on the conversation keeps the context object it resolved
DeleteContext ==
    \E conversation_id \in ConvIds :
        /\ conc.requests < MaxRequests
        /\ store' = delete_context(store, conversation_id)
        /\ conc' = [ Beside(conc, conversation_id) EXCEPT
                       !.deleted = @ \cup { conversation_id },
                       !.held = IF /\ conversation_id \in DOMAIN store
                                   /\ \/ BuildSuspendedOn(conversation_id)
                                      \/ BatchSuspendedOn(conversation_id)
                                THEN Heap(@, Restrict(store, { conversation_id }))
                                ELSE @ ]
        /\ last' = [ NoRequest EXCEPT !.op = "delete_context",
                                      !.input = Some([ conversation_id |-> conversation_id ]),
                                      !.changed = conversation_id \in DOMAIN store ]
        /\ UNCHANGED << gap, edits, loop, built, checked >>

\* line 333: the note of the snapshot of a batch update with resimulate
Resimulated(context) ==
    [ context EXCEPT !.scene_history[Len(context.scene_history)].note =
                         Append(@, "resimulated") ]

\* the response of batch_update_scene, or the HTTPException it raises
BatchResponse(call, warnings) ==
    [ raised |-> call.result.raised, error |-> call.result.error,
      status |-> IF call.result.raised THEN "" ELSE "updated",
      scene |-> call.result.scene, warnings |-> warnings ]

\* batch_update_scene with resimulate = true, up to "await simulate_physics"
\* (lines 257-344), or to the HTTPException of steps 1-3
BatchResimStart ==
    \E request \in ResimRequests :
        /\ conc.requests < MaxRequests
        /\ conc.batch.pc = "idle"
        /\ HistoryLen("c1") < MaxHistory
        /\ \E call \in { batch_update_scene(store, request) } :
              /\ store' = IF call.result.raised THEN call.contexts
                          ELSE [ call.contexts EXCEPT ![request.conversation_id] =
                                   Resimulated(@) ]
              /\ last' = [ op |-> "batch_update", input |-> Some(request),
                           raised |-> call.result.raised, error |-> call.result.error,
                           scene |-> call.result.scene,
                           body_ids |-> call.result.updated_body_ids,
                           changed |-> call.contexts # store ]
              /\ edits' = Count(request.conversation_id, call.result)
              /\ conc' = [ Beside(conc, request.conversation_id) EXCEPT
                             !.batch = IF call.result.raised
                                       THEN [ pc |-> "responded",
                                              conversation_id |-> request.conversation_id,
                                              engine_failed |-> FALSE,
                                              response |-> BatchResponse(call, << >>) ]
                                       ELSE [ pc |-> "awaiting_engine",
                                              conversation_id |-> request.conversation_id,
                                              engine_failed |-> FALSE,
                                              response |-> BatchResponse(call, << >>) ] ]
        /\ UNCHANGED << gap, loop, built, checked >>

\* lines 346-358 and 366-386: simulate_physics returned its frames; step 7
\* puts the context the request holds into the store, the success response
\* is returned
EngineReturns ==
    /\ conc.batch.pc = "awaiting_engine"
    /\ store' = Restrict(Heap(store, conc.held), DOMAIN store \cup { conc.batch.conversation_id })
    /\ conc' = [ conc EXCEPT
                   !.held = Restrict(@, DOMAIN @ \ { conc.batch.conversation_id }),
                   !.batch = [ @ EXCEPT !.pc = "responded" ] ]
    /\ UNCHANGED << last, gap, edits, loop, built, checked >>

\* the warning of lines 360-362
simulation_error(response) ==
    [ response EXCEPT !.warnings = Append(@, "Simulation error") ]

\* lines 360-362: simulate_physics raised; the exception is logged and turned
\* into a warning of the response
EngineFails ==
    /\ conc.batch.pc = "awaiting_engine"
    /\ store' = Restrict(Heap(store, conc.held), DOMAIN store \cup { conc.batch.conversation_id })
    /\ conc' = [ conc EXCEPT
                   !.held = Restrict(@, DOMAIN @ \ { conc.batch.conversation_id }),
                   !.batch = [ @ EXCEPT !.pc = "responded", !.engine_failed = TRUE,
                                        !.response = simulation_error(@) ] ]
    /\ UNCHANGED << last, gap, edits, loop, built, checked >>

InitConc ==
    /\ store \in { [ c \in Registered |-> context ] :
                      context \in { NewContext(Some(StartImage)), EarlierContext } }
    /\ last = NoRequest
    /\ gap = [ c \in ConvIds |-> {} ]
    /\ edits = [ c \in ConvIds |-> 0 ]
    /\ loop = NoBuild
    /\ conc = NoConc
    /\ built = << >>
    /\ checked = << >>

NextConc ==
    \/ ConcBuildStart
    \/ ConcOracleResponds
    \/ OracleFails
    \/ ConcEdit
    \/ SecondBuildEntry
    \/ DeleteContext
    \/ BatchResimStart
    \/ EngineReturns
    \/ EngineFails

SpecConc == InitConc /\ [][NextConc]_vars

\* ------------------------------------------------------------------------
\* Edit requests issued together: each handler runs from its call to its
\* return without an await (scene_editor/__init__.py has none), in the order
\* the event loop picks
\* ------------------------------------------------------------------------

\* the edit requests that may be issued together
SerialEdits ==
    << [ name |-> "create_block", input |-> BlockBase ],
      [ name |-> "create_block",
        input |-> [ BlockBase EXCEPT !.body_id = None, !.position_m = << 100, 0 >> ] ],
      [ name |-> "modify_block",
        input |-> [ ModifyBase EXCEPT !.position_m = Some(<< -100, 30 >>) ] ],
      [ name |-> "remove_block", input |-> [ conversation_id |-> "c1", body_id |-> "a" ] ],
      [ name |-> "set_mapping",
        input |-> [ conversation_id |-> "c1", origin_px |-> << Px(20), Px(10) >>,
                    scale_m_per_px |-> 2 ] ] >>

\* a conversation that holds the block "a"
BlockContext == create_block(NewContext(Some(StartImage)), BlockBase).context

\* requests are issued together; none has run yet
IssueEdits ==
    \E requests \in SUBSET DOMAIN SerialEdits :
        /\ conc.issued = {}
        /\ requests # {}
        /\ HistoryLen("c1") + Cardinality(requests) <= MaxHistory
        /\ conc' = [ conc EXCEPT !.issued = requests, !.pending = requests,
                                 !.issued_from = store ]
        /\ UNCHANGED << store, last, gap, edits, loop, built, checked >>

\* the event loop runs the handler of one of the issued requests
RunEdit ==
    \E request \in conc.pending :
        /\ ToolRequestStep(SerialEdits[request].name, SerialEdits[request].input)
        /\ conc' = [ conc EXCEPT !.pending = @ \ { request } ]
        /\ UNCHANGED << loop, built, checked >>

InitSerial ==
    /\ store \in { [ c \in Registered |-> context ] :
                      context \in { NewContext(Some(StartImage)), BlockContext } }
    /\ last = NoRequest
    /\ gap = [ c \in ConvIds |-> {} ]
    /\ edits = [ c \in ConvIds |-> 0 ]
    /\ loop = NoBuild
    /\ conc = NoConc
    /\ built = << >>
    /\ checked = << >>

NextSerial ==
    \/ IssueEdits
    \/ RunEdit

SpecSerial == InitSerial /\ [][NextSerial]_vars

\* ------------------------------------------------------------------------
\* UniversalBuilder (app/sim/universal_builder.py): bodies and rope
\* constraints from labelled regions.  A region box is [x, y, w, h] in whole
\* pixels, as the segmenter gives it; pixel points are fixed-point values;
\* masses are counted in grams.  Every region carries its id and its box and
\* every entity its region id and its type, as routers/diagram.py passes them.
\* ------------------------------------------------------------------------

\* no generated entity list is longer than this
MaxEntities == 3

\* no more invocations of the builder than this
MaxBuilds == 3

\* str() of the int id the segmenter gives a region
Digits == << "0", "1", "2", "3", "4", "5", "6", "7", "8", "9" >>

str(id) == Digits[id + 1]

\* lines 80 and 191-192: the centre of a region box
BoxCenter(bbox) ==
    << Px(bbox[1]) + Px(bbox[3]) \div 2, Px(bbox[2]) + Px(bbox[4]) \div 2 >>

\* px_to_meters measuring from the top-left corner of the image
px_to_meters_top_left(px_pos, img_center, scale_m_per_px) ==
    << PxToMeters(px_pos[1], scale_m_per_px), PxToMeters(px_pos[2], scale_m_per_px) >>

\* px_to_meters(px_pos, img_center, scale_m_per_px)
px_to_meters(px_pos, img_center, scale_m_per_px) ==
    << PxToMeters(px_pos[1] - img_center[1], scale_m_per_px),
       PxToMeters(px_pos[2] - img_center[2], scale_m_per_px) >>

\* build_scene._meters_to_pixels(value, origin_px, scale_m_per_px)
meters_to_pixels(value, origin_px, scale_m_per_px) ==
    << origin_px[1] + MetersToPx(value[1], IF scale_m_per_px = 0 THEN 2 ELSE scale_m_per_px),
       origin_px[2] - MetersToPx(value[2], IF scale_m_per_px = 0 THEN 2 ELSE scale_m_per_px) >>

\* estimate_mass_from_area(bbox) with base_mass_kg = 3.0
estimate_mass_from_area(bbox) ==
    IF Len(bbox) < 4 THEN 3000
    ELSE (3000 * Max(1, bbox[3] * bbox[4])) \div 2500

\* _coerce_positive(value, default)
coerce_positive(value, default) ==
    IF value # None /\ value[1] > 0 THEN value[1] ELSE default

\* _coerce_non_negative(value)
coerce_non_negative(value) ==
    IF value = None \/ value[1] < 0 THEN None ELSE value

\* lines 86-101: the body type of an entity type
EntityBodyType(entity_type) ==
    IF entity_type = "mass" THEN "dynamic"
    ELSE IF entity_type \in { "surface", "ramp", "ground", "rope", "anchor" } THEN "static"
    ELSE IF entity_type = "pulley" THEN "static"
    ELSE "dynamic"

\* lines 86-101: the mass of the body of an entity
EntityMass(entity, bbox) ==
    IF entity.type = "mass"
    THEN coerce_positive(entity.props.mass_guess_kg, estimate_mass_from_area(bbox))
    ELSE IF entity.type \in { "surface", "ramp", "ground", "rope", "anchor" }
    THEN coerce_positive(entity.props.mass_guess_kg,
                         IF entity.type \in { "surface", "ground" } THEN 1000000 ELSE 1000)
    ELSE IF entity.type = "pulley"
    THEN coerce_positive(entity.props.mass_guess_kg, 100)
    ELSE coerce_positive(entity.props.mass_guess_kg, 1000)

\* lines 119-125: the corners of a region box
BoxOutline(bbox) ==
    << << Px(bbox[1]), Px(bbox[2]) >>,
       << Px(bbox[1] + bbox[3]), Px(bbox[2]) >>,
       << Px(bbox[1] + bbox[3]), Px(bbox[2] + bbox[4]) >>,
       << Px(bbox[1]), Px(bbox[2] + bbox[4]) >> >>

\* lines 104-129: the outline the collider is made from
OutlinePx(segment) ==
    IF segment.polygon_px # None /\ Len(segment.polygon_px[1]) >= 3
    THEN [ i \in DOMAIN segment.polygon_px[1] |->
             << Px(segment.polygon_px[1][i][1]), Px(segment.polygon_px[1][i][2]) >> ]
    ELSE BoxOutline(segment.bbox)

\* lines 110-113 and 126-129
OutlineM(outline_px, img_center, scale_m_per_px) ==
    [ i \in DOMAIN outline_px |-> px_to_meters(outline_px[i], img_center, scale_m_per_px) ]

\* lines 104-136: polygon collider from the region's polygon, rectangle
\* collider from its box otherwise
Collider(segment, img_center, scale_m_per_px) ==
    IF segment.polygon_px # None /\ Len(segment.polygon_px[1]) >= 3
    THEN [ type |-> "polygon", width_m |-> None, height_m |-> None,
           vertices |-> Some(OutlineM(OutlinePx(segment), img_center, scale_m_per_px)) ]
    ELSE [ type |-> "rectangle",
           width_m |-> Some(PxToMeters(Px(segment.bbox[3]), scale_m_per_px)),
           height_m |-> Some(PxToMeters(Px(segment.bbox[4]), scale_m_per_px)),
           vertices |-> None ]

\* lines 139-146 and 159-160: the material is present when it has an entry
Material(props) ==
    IF coerce_non_negative(props.mu_k) = None /\ coerce_non_negative(props.restitution) = None
    THEN None
    ELSE Some([ friction |-> coerce_non_negative(props.mu_k),
                restitution |-> coerce_non_negative(props.restitution) ])

\* a body id that numbers the invocations of the builder
body_id_numbered(entity_type, segment_id) == << entity_type, segment_id, str(Len(built)) >>

\* line 148: f"{entity_type}_{segment_id}", kept as the pair of its parts
body_id(entity_type, segment_id) == << entity_type, segment_id >>

\* create_body_from_entity(entity, segment, img_center, scale_m_per_px)
create_body_from_entity(entity, segment, img_center, scale_m_per_px) ==
    [ id           |-> body_id(entity.type, entity.segment_id),
      type         |-> EntityBodyType(entity.type),
      mass_kg      |-> EntityMass(entity, segment.bbox),
      position_m   |-> px_to_meters(BoxCenter(segment.bbox), img_center, scale_m_per_px),
      velocity_m_s |-> << 0, 0 >>,
      collider     |-> Collider(segment, img_center, scale_m_per_px),
      material     |-> Material(entity.props),
      source_segment_id |-> entity.segment_id,
      geometry     |->
          [ polygon_px |-> OutlinePx(segment),
            polygon_m  |-> OutlineM(OutlinePx(segment), img_center, scale_m_per_px),
            bbox_px    |-> [ i \in 1..4 |-> Px(segment.bbox[i]) ],
            center_px  |-> BoxCenter(segment.bbox),
            center_m   |-> px_to_meters(BoxCenter(segment.bbox), img_center,
                                        scale_m_per_px) ] ]

\* lines 195-214: the mass entities whose region centre is less than
\* tolerance_px = 100 from the pulley's centre horizontally, in entity order
connected_masses(pulley_seg, mass_entities, segments_by_id) ==
    LET aligned == SelectSeq(mass_entities, LAMBDA e :
                      /\ DictHas(segments_by_id, e.segment_id)
                      /\ Abs(BoxCenter(DictGet(segments_by_id, e.segment_id).bbox)[1]
                             - BoxCenter(pulley_seg.bbox)[1]) < Px(100))
    IN [ i \in DOMAIN aligned |->
           [ entity   |-> aligned[i],
             segment  |-> DictGet(segments_by_id, aligned[i].segment_id),
             distance |-> Abs(BoxCenter(DictGet(segments_by_id,
                                                aligned[i].segment_id).bbox)[2]
                              - BoxCenter(pulley_seg.bbox)[2]) ] ]

\* the candidates left in the order they were found
sort_by_distance_unsorted(masses) == masses

\* line 221: list.sort(key=distance), a stable sort
sort_by_distance(masses) ==
    LET rank(i) == 1 + Cardinality({ j \in DOMAIN masses :
                          \/ masses[j].distance < masses[i].distance
                          \/ masses[j].distance = masses[i].distance /\ j < i })
    IN [ k \in DOMAIN masses |-> masses[CHOOSE i \in DOMAIN masses : rank(i) = k] ]

\* lines 222-242: the rope between the two first candidates
RopeBetween(sorted, pulley_cy, scale_m_per_px) ==
    [ type      |-> "rope",
      body_a    |-> << "mass", sorted[1].entity.segment_id >>,
      body_b    |-> << "mass", sorted[2].entity.segment_id >>,
      length_m  |-> PxToMeters(Abs(BoxCenter(sorted[1].segment.bbox)[2] - pulley_cy),
                               scale_m_per_px)
                    + PxToMeters(Abs(BoxCenter(sorted[2].segment.bbox)[2] - pulley_cy),
                                 scale_m_per_px),
      stiffness |-> 1 ]

\* infer_rope_constraint(pulley_entity, mass_entities, segments_by_id,
\* img_center, scale_m_per_px): None or the rope; by_id is segments_by_id
infer_rope_constraint(pulley_entity, mass_entities, by_id, img_center, scale_m_per_px) ==
    IF ~DictHas(by_id, pulley_entity.segment_id) THEN None
    ELSE IF Len(connected_masses(DictGet(by_id, pulley_entity.segment_id),
                                 mass_entities, by_id)) < 2 THEN None
    ELSE Some(RopeBetween(
                sort_by_distance(connected_masses(
                    DictGet(by_id, pulley_entity.segment_id),
                    mass_entities, by_id)),
                BoxCenter(DictGet(by_id, pulley_entity.segment_id).bbox)[2],
                scale_m_per_px))

\* line 285: {str(seg["id"]): seg for seg in segments}
RECURSIVE segments_by_id(_)
segments_by_id(segments) ==
    IF segments = << >> THEN << >>
    ELSE DictSet(segments_by_id(SubSeq(segments, 1, Len(segments) - 1)),
                 str(segments[Len(segments)].id), segments[Len(segments)])

\* line 297
SegmentNotFound(entity) ==
    [ text |-> "Segment not found for entity", segment_id |-> entity.segment_id,
      entity_type |-> Some(entity.type) ]

\* line 325
NoConnectedMasses(pulley_ent) ==
    [ text |-> "Pulley has no connected masses", segment_id |-> pulley_ent.segment_id,
      entity_type |-> None ]

\* the pulley loop reporting nothing for a pulley without a rope
InferPulleySystems_silent(pulley_entities, mass_entities, by_id, img_center, scale) ==
    LET ropes == [ i \in DOMAIN pulley_entities |->
                     infer_rope_constraint(pulley_entities[i], mass_entities, by_id,
                                           img_center, scale) ]
        found == SelectSeq(ropes, LAMBDA r : r # None)
    IN [ constraints |-> [ i \in DOMAIN found |-> found[i][1] ],
         warnings    |-> << >> ]

\* lines 311-325: one rope or one warning for each pulley entity
InferPulleySystems(pulley_entities, mass_entities, by_id, img_center, scale_m_per_px) ==
    LET ropes == [ i \in DOMAIN pulley_entities |->
                     infer_rope_constraint(pulley_entities[i], mass_entities, by_id,
                                           img_center, scale_m_per_px) ]
        found == SelectSeq(ropes, LAMBDA r : r # None)
        alone == SelectSeq(pulley_entities, LAMBDA p :
                     infer_rope_constraint(p, mass_entities, by_id, img_center,
                                           scale_m_per_px) = None)
    IN [ constraints |-> [ i \in DOMAIN found |-> found[i][1] ],
         warnings    |-> [ i \in DOMAIN alone |-> NoConnectedMasses(alone[i]) ] ]

\* lines 332-361: the result of the builder
BuilderResult(request, W, H, scale_m_per_px, bodies, missing, inferred) ==
    [ scene |->
        [ version     |-> "0.4.0",
          world       |-> [ gravity_m_s2 |-> OrElse(request.defaults.gravity_m_s2, 981),
                            time_step_s  |-> OrElse(request.defaults.time_step_s, 16) ],
          bodies      |-> bodies,
          constraints |-> inferred.constraints,
          mapping     |-> [ scale_m_per_px |-> scale_m_per_px,
                            origin_mode    |-> OrElse(request.mapping.origin_mode,
                                                      "anchor_centered"),
                            origin_px      |-> << Px(W) \div 2, Px(H) \div 2 >> ],
          image       |-> [ width_px |-> W, height_px |-> H ] ],
      warnings |-> [ i \in DOMAIN missing |-> SegmentNotFound(missing[i]) ]
                   \o inferred.warnings,
      meta |-> [ builder          |-> "universal_v1",
                 entity_count     |-> Len(request.labels.entities),
                 constraint_count |-> Len(inferred.constraints),
                 body_count       |-> Len(bodies) ] ]

\* lines 287-361, with the locals of lines 268-285 at hand
BuildWith(request, W, H, scale_m_per_px, by_id) ==
    BuilderResult(request, W, H, scale_m_per_px,
        [ i \in DOMAIN SelectSeq(request.labels.entities,
                                 LAMBDA e : DictHas(by_id, e.segment_id)) |->
            create_body_from_entity(
                SelectSeq(request.labels.entities,
                          LAMBDA e : DictHas(by_id, e.segment_id))[i],
                DictGet(by_id, SelectSeq(request.labels.entities,
                                         LAMBDA e : DictHas(by_id, e.segment_id))[i].segment_id),
                << Px(W) \div 2, Px(H) \div 2 >>, scale_m_per_px) ],
        SelectSeq(request.labels.entities, LAMBDA e : ~DictHas(by_id, e.segment_id)),
        InferPulleySystems(
            SelectSeq(request.labels.entities,
                      LAMBDA e : DictHas(by_id, e.segment_id) /\ e.type = "pulley"),
            SelectSeq(request.labels.entities,
                      LAMBDA e : DictHas(by_id, e.segment_id) /\ e.type = "mass"),
            by_id, << Px(W) \div 2, Px(H) \div 2 >>, scale_m_per_px))

\* build_scene_universal(request)
build_scene_universal(request) ==
    BuildWith(request, OrElse(request.image.width_px, 800),
              OrElse(request.image.height_px, 600),
              OrElse(request.mapping.scale_m_per_px, 2),
              segments_by_id(request.segments))

\* the regions of the requests: two blocks level with each other, a wheel
\* above and between them, a block exactly 100 px left of the wheel's centre
\* line, and a region with a polygon just below the wheel, 10 px to its left
BuilderSegments ==
    << [ id |-> 1, bbox |-> << 20, 40, 20, 20 >>, polygon_px |-> None ],
       [ id |-> 2, bbox |-> << 160, 40, 20, 20 >>, polygon_px |-> None ],
       [ id |-> 3, bbox |-> << 100, 10, 20, 20 >>, polygon_px |-> None ],
       [ id |-> 4, bbox |-> << 0, 60, 20, 20 >>, polygon_px |-> None ],
       [ id |-> 5, bbox |-> << 90, 30, 20, 10 >>,
         polygon_px |-> Some(<< << 90, 30 >>, << 110, 30 >>, << 100, 40 >> >>) ] >>

NoProps == [ mass_guess_kg |-> None, mu_k |-> None, restitution |-> None ]

Entity(type, segment_id) == [ segment_id |-> segment_id, type |-> type, props |-> NoProps ]

\* the entities the generated requests draw from; region "9" does not exist
EntityChoices ==
    << [ Entity("mass", "1") EXCEPT !.props.mass_guess_kg = Some(2000),
                                    !.props.mu_k = Some(1) ],
       Entity("mass", "2"),
       Entity("mass", "4"),
       Entity("mass", "5"),
       Entity("mass", "9"),
       Entity("pulley", "3"),
       Entity("surface", "2") >>

\* entity lists of the other types, of unresolved pulleys, of two pulleys and
\* of three masses under one pulley
OtherEntityLists ==
    { << Entity("mass", "1"), Entity("mass", "2"), Entity("mass", "5"),
         Entity("pulley", "3") >>,
      << Entity("mass", "2"), Entity("mass", "5"), Entity("mass", "1"),
         Entity("mass", "4"), Entity("pulley", "3") >>,
      << Entity("ramp", "1"), Entity("ground", "2"), Entity("rope", "4"),
         Entity("anchor", "5") >>,
      << Entity("spring", "1"), Entity("pulley", "9"), Entity("pulley", "5"),
         Entity("mass", "2") >>,
      << [ Entity("mass", "1") EXCEPT !.props.mass_guess_kg = Some(0),
                                      !.props.restitution = Some(-1) ],
         Entity("pulley", "3"), Entity("pulley", "5"), Entity("mass", "2") >>,
      << Entity("mass", "1"), Entity("mass", "4"), Entity("pulley", "3"),
         Entity("pulley", "5") >> }

EntityLists ==
    { [ i \in DOMAIN picks |-> EntityChoices[picks[i]] ] :
        picks \in UNION { [ 1..n -> DOMAIN EntityChoices ] : n \in 0..MaxEntities } }
    \cup OtherEntityLists

\* image 200x100 px, scale 0.01 m/px, two masses and a pulley
ScenarioRequest ==
    [ image    |-> [ width_px |-> Some(200), height_px |-> Some(100) ],
      segments |-> BuilderSegments,
      labels   |-> [ entities |-> << Entity("mass", "1"), Entity("mass", "2"),
                                     Entity("pulley", "3") >> ],
      mapping  |-> [ scale_m_per_px |-> Some(2), origin_mode |-> Some("anchor_centered") ],
      defaults |-> [ gravity_m_s2 |-> Some(1000), time_step_s |-> None ] ]

\* the requests of a first invocation
BuilderRequests ==
    { [ ScenarioRequest EXCEPT !.labels.entities = entities ] : entities \in EntityLists }
    \cup { [ ScenarioRequest EXCEPT !.image = image, !.mapping = mapping,
                                    !.defaults.gravity_m_s2 = None ] :
             image \in { [ width_px |-> Some(200), height_px |-> Some(100) ],
                         [ width_px |-> None, height_px |-> None ] },
             mapping \in { [ scale_m_per_px |-> None, origin_mode |-> None ],
                           [ scale_m_per_px |-> Some(4),
                             origin_mode |-> Some("anchor_centered") ] } }

\* one invocation, appended to the invocations made so far
Invoked(invocations, request) ==
    Append(invocations, [ request |-> request, result |-> build_scene_universal(request) ])

\* the builder is invoked with a request
BuildNew ==
    /\ built = << >>
    /\ checked = << >>
    /\ \E request \in BuilderRequests : built' = Invoked(built, request)
    /\ UNCHANGED << store, last, gap, edits, loop, conc, checked >>

\* the builder is invoked again with the request of an earlier invocation
BuildRepeat ==
    \E i \in DOMAIN built :
        /\ Len(built) < MaxBuilds
        /\ built' = Invoked(built, built[i].request)
        /\ UNCHANGED << store, last, gap, edits, loop, conc, checked >>

\* the builder is invoked with the scenario after other invocations
BuildScenario ==
    /\ built # << >>
    /\ Len(built) < MaxBuilds
    /\ built' = Invoked(built, ScenarioRequest)
    /\ UNCHANGED << store, last, gap, edits, loop, conc, checked >>

InitBuilder ==
    /\ store = [ c \in Registered |-> NewContext(Some(StartImage)) ]
    /\ last = NoRequest
    /\ gap = [ c \in ConvIds |-> {} ]
    /\ edits = [ c \in ConvIds |-> 0 ]
    /\ loop = NoBuild
    /\ conc = NoConc
    /\ built = << >>
    /\ checked = << >>

NextBuilder ==
    \/ BuildNew
    \/ BuildRepeat
    \/ BuildScenario

SpecBuilder == InitBuilder /\ [][NextBuilder]_vars

\* ------------------------------------------------------------------------
\* Validators: Scene.normalize (app/sim/schema.py), validate_scene_entities
\* (app/agent/tools/validate_entities.py) and resolve_kind
\* (app/sim/registry.py)
\* ------------------------------------------------------------------------

\* no scene handed to normalize has more constraints than this
MaxSceneConstraints == 2

\* no entity list handed to the validators is longer than this
MaxListed == 3

\* no more validator calls than this
MaxChecks == 2

\* Python truthiness of an optional string
Truthy(opt) == opt # None /\ opt[1] # ""

\* Scene.body_ids()
body_ids(scene) == { scene.bodies[i].id : i \in DOMAIN scene.bodies }

\* lines 144-150: the ids a constraint names that are not body ids
MissingOf(constraint, ids) ==
    (IF Truthy(constraint.body_a) /\ constraint.body_a[1] \notin ids
     THEN << constraint.body_a[1] >> ELSE << >>)
    \o (IF Truthy(constraint.body_b) /\ constraint.body_b[1] \notin ids
        THEN << constraint.body_b[1] >> ELSE << >>)

\* validate_references looking at body_a only
validate_references_body_a_only(scene) ==
    LET bad == SelectSeq(scene.constraints, LAMBDA c :
                   Truthy(c.body_a) /\ c.body_a[1] \notin body_ids(scene))
    IN IF bad = << >>
       THEN [ raised |-> FALSE, error |-> "", missing |-> << >> ]
       ELSE [ raised |-> TRUE, error |-> "Constraint references unknown body ids",
              missing |-> << bad[1].body_a[1] >> ]

\* Scene.validate_references(): raises at the first constraint that names an
\* unknown body, with the ids that constraint misses
validate_references(scene) ==
    LET bad == SelectSeq(scene.constraints, LAMBDA c :
                   MissingOf(c, body_ids(scene)) # << >>)
    IN IF bad = << >>
       THEN [ raised |-> FALSE, error |-> "", missing |-> << >> ]
       ELSE [ raised |-> TRUE, error |-> "Constraint references unknown body ids",
              missing |-> MissingOf(bad[1], body_ids(scene)) ]

\* Scene.normalize(): the scene itself unless validate_references raises
normalize(scene) ==
    [ raised  |-> validate_references(scene).raised,
      error   |-> validate_references(scene).error,
      missing |-> validate_references(scene).missing,
      scene   |-> IF validate_references(scene).raised THEN None ELSE Some(scene) ]

\* str.lower() on the type and label strings of the entity lists
lower(s) ==
    IF s = "Mass" THEN "mass"
    ELSE IF s = "Pulley" THEN "pulley"
    ELSE s

\* resolve_kind.etype(e): the type, or the label when the type is missing
etype(e) ==
    IF Truthy(e.type) THEN lower(e.type[1])
    ELSE IF e.label # None THEN lower(e.label[1]) ELSE ""

\* lines 18-24
ResolverCount(entities, kind) == Len(SelectSeq(entities, LAMBDA e : etype(e) = kind))

\* resolve_kind(entities): the scene kind, or a ValueError
resolve_kind(entities) ==
    IF ResolverCount(entities, "mass") >= 2 /\ ResolverCount(entities, "pulley") >= 1
    THEN [ raised |-> FALSE, kind |-> Some("pulley.single_fixed_v0") ]
    ELSE IF ResolverCount(entities, "mass") = 1 /\ ResolverCount(entities, "ramp") = 1
    THEN [ raised |-> FALSE, kind |-> Some("ramp.block_v0") ]
    ELSE IF ResolverCount(entities, "mass") = 1
            /\ ResolverCount(entities, "pendulum_pivot") = 1
    THEN [ raised |-> FALSE, kind |-> Some("pendulum.single_v0") ]
    ELSE IF ResolverCount(entities, "mass") = 1 /\ ResolverCount(entities, "spring") >= 1
    THEN [ raised |-> FALSE, kind |-> Some("spring_mass.single_v0") ]
    ELSE [ raised |-> TRUE, kind |-> None ]

\* line 78 and 87-92: Counter(e.get("type")).get(kind, 0)
type_counts(entities, kind) ==
    Len(SelectSeq(entities, LAMBDA e : e.type = Some(kind)))

Note(text, count) == [ text |-> text, count |-> count ]

\* lines 94-132: the rule that matches, if any
ValidatorKind(entities) ==
    IF type_counts(entities, "mass") >= 2 /\ type_counts(entities, "pulley") > 0
    THEN Some("pulley.single_fixed_v0")
    ELSE IF type_counts(entities, "mass") >= 1 /\ type_counts(entities, "ramp") > 0
    THEN Some("ramp.block_v0")
    ELSE IF type_counts(entities, "mass") >= 1
            /\ type_counts(entities, "pendulum_pivot") > 0
    THEN Some("pendulum.single_v0")
    ELSE IF type_counts(entities, "mass") >= 1 /\ type_counts(entities, "spring") > 0
    THEN Some("spring_mass.single_v0")
    ELSE None

\* lines 98-132 and 164-167
ValidatorWarnings(entities, allow_incomplete, scene_kind, mass_count) ==
    IF scene_kind = Some("pulley.single_fixed_v0")
    THEN (IF type_counts(entities, "surface") > 0
          THEN << Note("Surface detected but not required for pulley scene", None) >>
          ELSE << >>)
         \o (IF mass_count > 2
             THEN << Note("masses found, only first 2 will be used in pulley system",
                          Some(mass_count)) >>
             ELSE << >>)
    ELSE IF scene_kind # None
    THEN (IF mass_count > 1
          THEN << Note("masses found, only first will be used", Some(mass_count)) >>
          ELSE << >>)
    ELSE IF allow_incomplete
    THEN << Note("Incomplete entity set, but allow_incomplete=True", None) >>
    ELSE << >>

\* lines 136-159
ValidatorMissing(scene_kind, mass_count) ==
    IF scene_kind # None THEN << >>
    ELSE IF mass_count = 0 THEN << "At least 1 mass required" >>
    ELSE IF mass_count = 1
    THEN << "Need either: pulley (for 2nd mass), ramp, pendulum_pivot, or spring" >>
    ELSE << "Need pulley for multi-mass system" >>

\* lines 143-178
ValidatorSuggestions(entities, scene_kind, mass_count) ==
    IF scene_kind = Some("pulley.single_fixed_v0")
    THEN IF SelectSeq(entities, LAMBDA e : e.type = Some("pulley"))[1].wheel_radius_m = None
         THEN << "Add wheel_radius_m to pulley props for better accuracy" >>
         ELSE << >>
    ELSE IF scene_kind # None \/ mass_count = 0 THEN << >>
    ELSE IF mass_count = 1
    THEN << "For pulley system: add another mass + pulley", "For ramp: add ramp entity",
            "For pendulum: add pendulum_pivot entity", "For spring-mass: add spring entity" >>
    ELSE << "Add pulley entity to create pulley.single_fixed_v0 scene" >>

\* validate_scene_entities(input_data)
validate_scene_entities(entities, allow_incomplete) ==
    [ valid            |-> ValidatorKind(entities) # None \/ allow_incomplete,
      scene_kind       |-> ValidatorKind(entities),
      warnings         |-> ValidatorWarnings(entities, allow_incomplete,
                                             ValidatorKind(entities),
                                             type_counts(entities, "mass")),
      missing_required |-> ValidatorMissing(ValidatorKind(entities),
                                            type_counts(entities, "mass")),
      suggestions      |-> ValidatorSuggestions(entities, ValidatorKind(entities),
                                                type_counts(entities, "mass")) ]

\* the bodies of the scenes handed to normalize
SceneBody(id) == [ id |-> id, type |-> "dynamic", mass_kg |-> 1000, position_m |-> << 0, 100 >> ]

SceneBodyLists ==
    { << >>, << SceneBody("m1") >>, << SceneBody("m1"), SceneBody("m2") >>,
      << SceneBody("m1"), SceneBody("") >> }

\* what a constraint of those scenes may name: nothing, a body, an unknown
\* id, the empty string
SceneRefs == { None, Some("m1"), Some("mX"), Some("") }

SceneConstraints ==
    { [ type |-> "rope", body_a |-> a, body_b |-> b, length_m |-> 100 ] :
        a \in SceneRefs, b \in SceneRefs }

Scenes ==
    { [ version |-> "0.4.0", world |-> DefaultWorld, bodies |-> bodies,
        constraints |-> constraints ] :
        bodies \in SceneBodyLists,
        constraints \in UNION { [ 1..n -> SceneConstraints ] : n \in 0..MaxSceneConstraints } }

Listed(type, label, wheel_radius_m) ==
    [ type |-> type, label |-> label, wheel_radius_m |-> wheel_radius_m ]

\* the entities of the lists handed to the validators
ListedChoices ==
    { Listed(Some("mass"), None, None), Listed(Some("pulley"), None, None),
      Listed(Some("pulley"), None, Some(20)), Listed(Some("ramp"), None, None),
      Listed(Some("pendulum_pivot"), None, None), Listed(Some("spring"), None, None),
      Listed(Some("surface"), None, None), Listed(Some("Mass"), None, None),
      Listed(None, Some("mass"), None) }

ListedEntities == UNION { [ 1..n -> ListedChoices ] : n \in 0..MaxListed }

\* one checked call, in the one shape all three validators share
Checked(op, scene, entities, allow_incomplete, raised, missing, scene_kind, valid) ==
    [ op |-> op, scene |-> scene, entities |-> entities,
      allow_incomplete |-> allow_incomplete, raised |-> raised, missing |-> missing,
      scene_kind |-> scene_kind, valid |-> valid ]

\* the scenes a call may be about: any scene first, the scenes normalize
\* returned afterwards
ScenesToCheck ==
    IF checked = << >> THEN Scenes
    ELSE { checked[i].scene[1] :
             i \in { n \in DOMAIN checked : checked[n].op = "normalize" /\ ~checked[n].raised } }

\* Scene.normalize() on a scene
Normalize ==
    /\ Len(checked) < MaxChecks
    /\ \E scene \in ScenesToCheck :
          checked' = Append(checked,
              Checked("normalize", Some(scene), << >>, FALSE, normalize(scene).raised,
                      normalize(scene).missing, None, ~normalize(scene).raised))
    /\ UNCHANGED << store, last, gap, edits, loop, conc, built >>

\* the entity lists a call may be about: any list first, the lists already
\* checked afterwards
ListsToCheck ==
    IF checked = << >> THEN ListedEntities
    ELSE { checked[i].entities : i \in DOMAIN checked }

\* validate_scene_entities on an entity list
ValidateSceneEntities ==
    /\ Len(checked) < MaxChecks
    /\ \A i \in DOMAIN checked : checked[i].op # "normalize"
    /\ \E entities \in ListsToCheck, allow_incomplete \in BOOLEAN :
          checked' = Append(checked,
              Checked("validate_scene_entities", None, entities, allow_incomplete, FALSE,
                      << >>, validate_scene_entities(entities, allow_incomplete).scene_kind,
                      validate_scene_entities(entities, allow_incomplete).valid))
    /\ UNCHANGED << store, last, gap, edits, loop, conc, built >>

\* resolve_kind on an entity list
ResolveKind ==
    /\ Len(checked) < MaxChecks
    /\ \A i \in DOMAIN checked : checked[i].op # "normalize"
    /\ \E entities \in ListsToCheck :
          checked' = Append(checked,
              Checked("resolve_kind", None, entities, FALSE, resolve_kind(entities).raised,
                      << >>, resolve_kind(entities).kind, ~resolve_kind(entities).raised))
    /\ UNCHANGED << store, last, gap, edits, loop, conc, built >>

InitValidators ==
    /\ store = [ c \in Registered |-> NewContext(Some(StartImage)) ]
    /\ last = NoRequest
    /\ gap = [ c \in ConvIds |-> {} ]
    /\ edits = [ c \in ConvIds |-> 0 ]
    /\ loop = NoBuild
    /\ conc = NoConc
    /\ built = << >>
    /\ checked = << >>

NextValidators ==
    \/ Normalize
    \/ ValidateSceneEntities
    \/ ResolveKind

SpecValidators == InitValidators /\ [][NextValidators]_vars

\* ------------------------------------------------------------------------
\* The bounds clamper on its own: requests clamped in a frame, and the result
\* of a clamp handed to the clamper once more
\* ------------------------------------------------------------------------

\* the image sizes of the frames: narrower than, equal to and wider than
\* 2 * margin + the smallest footprint limit, and no image
ClampImages ==
    { None,
      Some([ width_px |-> Some(5), height_px |-> Some(20) ]),
      Some([ width_px |-> Some(6), height_px |-> Some(20) ]),
      Some([ width_px |-> Some(40), height_px |-> Some(5) ]),
      Some(StartImage) }

\* the mappings of the frames (scales 0.01 and 0.02 m/px), and no mapping
ClampMappings ==
    { None,
      Some([ origin_px |-> << 0, 0 >>, scale_m_per_px |-> 2 ]),
      Some([ origin_px |-> << Px(20), Px(10) >>, scale_m_per_px |-> 2 ]),
      Some([ origin_px |-> << Px(3), Px(10) >>, scale_m_per_px |-> 4 ]) }

\* requested centers and sizes, in model length units
ClampPositions == { << x, y >> : x \in { -100, 0, 6, 100 }, y \in { -30, 0, 20 } }

ClampSizes == { << w, h >> : w \in { 4, 8, 200 }, h \in { 4, 100 } }

\* a context with the image size and the mapping of a frame
ClampContext(image, mapping) == [ NewContext(image) EXCEPT !.mapping = mapping ]

\* one call of the clamper: the frame, the request, and what was returned
Clamped(op, image, mapping, position_m, size_m) ==
    [ op |-> op, image |-> image, mapping |-> mapping,
      position_m |-> position_m, size_m |-> size_m,
      result |-> clamp_block_to_image_bounds(ClampContext(image, mapping), position_m, size_m) ]

\* _clamp_block_to_image_bounds on a requested center and size
ClampRequest ==
    /\ checked = << >>
    /\ \E image \in ClampImages, mapping \in ClampMappings,
          position_m \in ClampPositions, size_m \in ClampSizes :
          checked' = << Clamped("clamp", image, mapping, position_m, size_m) >>
    /\ UNCHANGED << store, last, gap, edits, loop, conc, built >>

\* _clamp_block_to_image_bounds on the center and size the previous call
\* returned, in the same frame
ClampAgain ==
    /\ checked # << >>
    /\ Len(checked) < MaxChecks
    /\ LET previous == checked[Len(checked)]
       IN checked' = Append(checked,
              Clamped("reclamp", previous.image, previous.mapping,
                      previous.result.position, previous.result.size))
    /\ UNCHANGED << store, last, gap, edits, loop, conc, built >>

InitClamper ==
    /\ store = [ c \in Registered |-> NewContext(Some(StartImage)) ]
    /\ last = NoRequest
    /\ gap = [ c \in ConvIds |-> {} ]
    /\ edits = [ c \in ConvIds |-> 0 ]
    /\ loop = NoBuild
    /\ conc = NoConc
    /\ built = << >>
    /\ checked = << >>

NextClamper ==
    \/ ClampRequest
    \/ ClampAgain

SpecClamper == InitClamper /\ [][NextClamper]_vars

\* ------------------------------------------------------------------------
\* Two registered conversations: requests and a build for one of them while
\* the other holds a document of its own
\* ------------------------------------------------------------------------

\* most successful edit requests to the two conversations together
MaxIsolationEdits == 2

\* an edit request may be made: no build is running and the requests made
\* are within the bound
EditBesideAllowed ==
    /\ loop.pc = "idle"
    /\ edits["c1"] + edits["c2"] < MaxIsolationEdits

\* a build may be started: before any edit request of the behaviour
BuildBesideAllowed == last = NoRequest

InitIsolation ==
    /\ store \in { [ c \in ConvIds |-> IF c = "c1" THEN context ELSE EarlierContext ] :
                      context \in { NewContext(Some(StartImage)), EarlierContext } }
    /\ last = NoRequest
    /\ gap = [ c \in ConvIds |-> {} ]
    /\ edits = [ c \in ConvIds |-> 0 ]
    /\ loop = NoBuild
    /\ conc = NoConc
    /\ built = << >>
    /\ checked = << >>

NextIsolation ==
    \/ EditBesideAllowed /\ CreateBlock
    \/ EditBesideAllowed /\ ModifyBlock
    \/ EditBesideAllowed /\ RemoveBlock
    \/ EditBesideAllowed /\ CreatePulley
    \/ EditBesideAllowed /\ CreateRope
    \/ EditBesideAllowed /\ SetWorld
    \/ EditBesideAllowed /\ SetMapping
    \/ EditBesideAllowed /\ BatchUpdate
    \/ EditBesideAllowed /\ BuildImageMissing
    \/ BuildBesideAllowed /\ BuildStart
    \/ OracleResponds
    \/ OracleFails

SpecIsolation == InitIsolation /\ [][NextIsolation]_vars

\* ------------------------------------------------------------------------
\* Views used by the properties
\* ------------------------------------------------------------------------

\* what the snapshot() accessor reads from a context: world, bodies,
\* constraints and mapping (an empty scene_state reads as the seeded defaults)
DocView(context) == SnapshotOf(ensure_scene_initialized(context).scene_state[1])

\* the document of a conversation as a reader sees it, with its history
Document(contexts, conversation_id) ==
    [ view |-> DocView(contexts[conversation_id]),
      history |-> contexts[conversation_id].scene_history ]

IsPrefix(s, t) == Len(s) <= Len(t) /\ \A i \in DOMAIN s : s[i] = t[i]

\* the mapping the clamper reads for a context, when it is usable
\* together with the image size
ClampFrame(context) ==
    LET st_mapping == IF context.scene_state = None THEN None
                      ELSE context.scene_state[1].mapping
        mapping == IF st_mapping # None THEN st_mapping ELSE context.mapping
        w == IF context.image_metadata = None THEN 0
             ELSE OrElse(context.image_metadata[1].width_px, 0)
        h == IF context.image_metadata = None THEN 0
             ELSE OrElse(context.image_metadata[1].height_px, 0)
    IN [ usable |-> mapping # None /\ w > 0 /\ h > 0
                    /\ (mapping # None => mapping[1].scale_m_per_px > 0),
         mapping |-> mapping, width_px |-> w, height_px |-> h ]

\* a rectangular body's footprint, projected through the mapping, lies
\* within [2, W-2] x [2, H-2]
FootprintInside(body, frame) ==
    LET scale == frame.mapping[1].scale_m_per_px
        cx == frame.mapping[1].origin_px[1] + MetersToPx(body.position_m[1], scale)
        cy == frame.mapping[1].origin_px[2] - MetersToPx(body.position_m[2], scale)
        w == MetersToPx(body.collider.width_m[1], scale)
        h == MetersToPx(body.collider.height_m[1], scale)
    IN /\ 2 * cx - w >= 2 * Px(MarginPx)
       /\ 2 * cx + w <= 2 * (Px(frame.width_px) - Px(MarginPx))
       /\ 2 * cy - h >= 2 * Px(MarginPx)
       /\ 2 * cy + h <= 2 * (Px(frame.height_px) - Px(MarginPx))

\* the latest request was a successful createBlock/modifyBlock on a registered
\* conversation whose mapping and image size are known, and left a rectangle
BlockWritten ==
    /\ last.op \in { "create_block", "modify_block" }
    /\ ~last.raised
    /\ ClampFrame(store[last.input[1].conversation_id]).usable
    /\ DictGet(LiveBodies(store, last.input[1].conversation_id),
               last.body_ids[1]).collider.type = "rectangle"

WrittenBlock == DictGet(LiveBodies(store, last.input[1].conversation_id), last.body_ids[1])

\* ------------------------------------------------------------------------
\* Properties
\* ------------------------------------------------------------------------

\* C1: after any sequence of edit operations every constraint's non-null
\* body_a and body_b names a body of the document, unless the constraint was
\* created by a createRope call that named a body missing at call time.
C1_ReferentialIntegrity ==
    \A c \in DOMAIN store :
        LET bodies == DictKeys(LiveBodies(store, c))
            constraints == IF store[c].scene_state = None THEN << >>
                           ELSE store[c].scene_state[1].constraints
        IN \A i \in DOMAIN constraints :
              constraints[i].key \notin gap[c] =>
                  /\ constraints[i].val.body_a # None => constraints[i].val.body_a[1] \in bodies
                  /\ constraints[i].val.body_b # None => constraints[i].val.body_b[1] \in bodies

\* C2 as claimed: after every createBlock/modifyBlock with a mapping and an
\* image size, the stored rectangle's pixel footprint lies within
\* [2, W-2] x [2, H-2], for all image sizes.
C2_BoundsContainmentAllImages ==
    BlockWritten =>
        FootprintInside(WrittenBlock, ClampFrame(store[last.input[1].conversation_id]))

\* C2 amended: the same, for images at least 6 pixels wide and 6 pixels high
\* (2 * margin + the 2 px smallest footprint limit).
C2_BoundsContainment ==
    LET frame == ClampFrame(store[last.input[1].conversation_id])
    IN (BlockWritten /\ frame.width_px >= 2 * MarginPx + MinMaxFootprintPx
                     /\ frame.height_px >= 2 * MarginPx + MinMaxFootprintPx)
       => FootprintInside(WrittenBlock, frame)

\* C2 witness: a block was written into the 6 px wide image with its size and
\* position clamped
C2_Witness ==
    /\ BlockWritten
    /\ ClampFrame(store["c1"]).width_px = 6
    /\ WrittenBlock.meta # None
    /\ WrittenBlock.meta[1].image_boundary_adjustments # None
    /\ Len(WrittenBlock.meta[1].image_boundary_adjustments[1]) >= 2

\* C3: removeBlock on a registered conversation never raises; when the id is
\* absent, world, bodies, constraints and mapping stay as they were and the
\* history grows by one snapshot holding the previous bodies; removing the
\* same id once more leaves the bodies as the first removal left them.
C3_RemoveIdempotent ==
    [][ (last'.op = "remove_block" /\ last'.input[1].conversation_id \in DOMAIN store) =>
          LET c == last'.input[1].conversation_id
              id == last'.input[1].body_id
              before == Document(store, c)
              after == Document(store', c)
              again == CallTool(store', "remove_block", last'.input[1])
          IN /\ ~last'.raised
             /\ id \notin DictKeys(LiveBodies(store, c)) =>
                   /\ after.view = before.view
                   /\ Len(after.history) = Len(before.history) + 1
                   /\ IsPrefix(before.history, after.history)
                   /\ after.history[Len(after.history)].scene.bodies = before.view.bodies
             /\ ~again.result.raised
             /\ DocView(again.contexts[c]).bodies = after.view.bodies
      ]_vars

\* C3 witness: an absent id was removed from a document that holds bodies
C3_Witness ==
    /\ last.op = "remove_block"
    /\ ~last.raised
    /\ last.input[1].body_id = "ghost"
    /\ LiveBodies(store, "c1") # << >>

\* C4: a build whose oracle returns at least one tool call in every round
\* makes exactly max_tool_iterations oracle rounds, then returns without
\* error a scene with the iteration-limit summary.
C4_IterationCapHonored ==
    (loop.pc \in { "returned", "failed" }
       /\ loop.conversation_id \in Registered
       /\ loop.rounds_with_calls = loop.iteration)
    => /\ loop.pc = "returned"
       /\ loop.iteration = loop.max_iterations
       /\ loop.scene # None
       /\ loop.final_summary = IterationLimitSummary

\* C5: a tool call with a name outside the catalogue fails only that call:
\* every tool call the oracle issued is still handled, the loop goes on and
\* the build returns a scene.
C5_UnknownToolFailsCallOnly ==
    (\E i \in DOMAIN loop.log : loop.log[i].ending = "unsupported")
    => /\ loop.pc \in { "awaiting_oracle", "returned" }
       /\ Len(loop.log) = loop.calls_received
       /\ loop.pc = "returned" => loop.scene # None

\* C6: a tool call whose arguments do not parse, fail validation, or whose
\* execution raises leaves bodies, constraints and history as they were,
\* appends one TOOL_ERROR transcript entry and one error record, and the
\* loop continues.
C6_ToolErrorIsLocal ==
    \A i \in DOMAIN loop.log :
        loop.log[i].ending \in { "bad_json", "invalid", "exec_raised" } =>
            /\ ~loop.log[i].document_changed
            /\ loop.log[i].tool_errors = 1
            /\ loop.log[i].error_records = 1
            /\ loop.pc # "failed"

\* C7: a createBlock or modifyBlock call with a non-positive width or height
\* fails and leaves bodies, constraints, world, mapping and history as they
\* were, also when the call supplies other fields.
C7_RejectedSizeLeavesDocument ==
    [][ ( /\ last'.op \in { "create_block", "modify_block" }
          /\ last'.input[1].conversation_id \in DOMAIN store
          /\ LET size == IF last'.op = "create_block" THEN Some(last'.input[1].size_m)
                         ELSE last'.input[1].size_m
             IN size # None /\ (size[1][1] <= 0 \/ size[1][2] <= 0) )
        => /\ last'.raised
           /\ Document(store', last'.input[1].conversation_id)
                = Document(store, last'.input[1].conversation_id)
      ]_vars

\* C8: a history entry keeps the content it was appended with, and between
\* resets the history only grows: across every edit operation and batch
\* update the history before is a prefix of the history after.
C8_HistoryAppendOnly ==
    [][ last'.op # "build_physics_scene" =>
          \A c \in DOMAIN store :
              /\ c \in DOMAIN store'
              /\ IsPrefix(store[c].scene_history, store'[c].scene_history)
      ]_vars

\* C8 witness: a body was modified in place after snapshots holding its
\* earlier state were appended
C8_Witness ==
    LET h == store["c1"].scene_history
    IN /\ last.op = "modify_block"
       /\ ~last.raised
       /\ Len(h) >= 3
       /\ h[Len(h) - 1].scene.bodies # h[Len(h)].scene.bodies

\* C9: every successful edit operation appends exactly one history entry,
\* equal to the snapshot returned and to the document after the operation,
\* and a failed one appends none: the history length is the number of
\* successful edits and batch updates since the last reset.
C9_OneSnapshotPerEdit ==
    \A c \in DOMAIN store :
        LET h == store[c].scene_history
        IN /\ Len(h) = edits[c]
           /\ (last.op # "none" /\ ~last.raised /\ last.input[1].conversation_id = c) =>
                 /\ h # << >>
                 /\ last.scene = Some(h[Len(h)].scene)
                 /\ h[Len(h)].scene = DocView(store[c])

\* C9 witness: a successful edit after a failed one that wrote into the document
C9_Witness ==
    /\ last.op = "create_rope"
    /\ ~last.raised
    /\ Len(store["c1"].scene_history) = 3
    /\ store["c1"].scene_history[2].note[1] = "batch_update"

\* C10: modifyBlock on a body id the document lacks fails with body-not-found,
\* an edit operation or batch update on an unregistered conversation id fails
\* with conversation-not-found, and neither creates or changes a body,
\* constraint, world, mapping, history entry or registry entry.
C10_ReferenceErrorsNoEffect ==
    [][ LET c == last'.input[1].conversation_id
        IN /\ ( /\ last'.op \in SceneEditToolNames \cup { "batch_update" }
                /\ c \notin DOMAIN store
                /\ last'.op \in SceneEditToolNames => InputValid(last'.op, last'.input[1]) )
              => /\ last'.raised
                 /\ last'.error = "Conversation not found"
                 /\ store' = store
           /\ ( /\ last'.op = "modify_block"
                /\ c \in DOMAIN store
                /\ last'.input[1].body_id \notin DictKeys(LiveBodies(store, c)) )
              => /\ last'.raised
                 /\ last'.error = "Body not found"
                 /\ DOMAIN store' = DOMAIN store
                 /\ \A d \in DOMAIN store : Document(store', d) = Document(store, d)
      ]_vars

\* C10 witness: modifyBlock named a missing body of a document that holds others
C10_Witness ==
    /\ last.op = "modify_block"
    /\ last.raised
    /\ last.error = "Body not found"
    /\ LiveBodies(store, "c1") # << >>
    /\ store["c1"].scene_history # << >>

\* C11: a batch update naming a body id or a constraint id the document does
\* not hold fails as a whole and leaves every body (collider sizes of the
\* bodies listed earlier in the request included), every constraint and the
\* history as they were.
C11_BatchReferenceErrorNoEffect ==
    [][ (/\ last'.op = "batch_update"
         /\ last'.raised
         /\ last'.error \in { "Body not found", "Constraint not found" })
        => Document(store', last'.input[1].conversation_id)
             = Document(store, last'.input[1].conversation_id) ]_vars

\* the step is a response of the oracle arriving in the awaited round
RoundAnswered == loop.pc = "awaiting_oracle" /\ loop'.round # None

\* what a round that did not converge may do: go on, or end the loop with
\* the iteration-limit summary (an exception in a tool call ends the build,
\* not the loop by convergence)
NotConverged ==
    loop'.pc = "returned" =>
        /\ loop'.final_summary = IterationLimitSummary
        /\ loop'.iteration = loop'.max_iterations

\* the round ended the loop with the given summary: no further oracle call,
\* no edit applied
ConvergedWith(summary) ==
    /\ loop'.pc = "returned"
    /\ loop'.final_summary = summary
    /\ loop'.log = loop.log
    /\ Document(store', loop.conversation_id) = Document(store, loop.conversation_id)

\* C12 as claimed: the loop stops by convergence exactly when a round returns
\* no tool calls and non-empty text, and the returned summary equals that text;
\* a round with tool calls never stops it that way.
C12_ConvergenceOnAnyText ==
    [][ RoundAnswered =>
          IF loop'.round[1].tool_calls = 0 /\ loop'.round[1].output_text # ""
          THEN ConvergedWith(loop'.round[1].output_text)
          ELSE NotConverged ]_vars

\* C12 amended: the loop stops by convergence exactly when a round returns no
\* tool calls and text that is non-empty once surrounding whitespace is
\* stripped, and the returned summary equals the stripped text.
C12_Convergence ==
    [][ RoundAnswered =>
          IF loop'.round[1].tool_calls = 0 /\ Strip(loop'.round[1].output_text) # ""
          THEN ConvergedWith(Strip(loop'.round[1].output_text))
          ELSE NotConverged ]_vars

\* C12 witness: a build that converged before its budget was used up, on a
\* text with surrounding whitespace
C12_Witness ==
    /\ loop.pc = "returned"
    /\ loop.round # None
    /\ loop.round[1].tool_calls = 0
    /\ loop.round[1].output_text = " done "
    /\ loop.final_summary = "done"
    /\ loop.iteration < loop.max_iterations

\* C13: whatever the oracle returns, as long as each oracle call returns, the
\* build makes at most max_tool_iterations oracle calls and ends with a
\* returned scene; with max_tool_iterations = 0 it makes none and returns.
C13_BoundedAndReturns ==
    (loop.pc # "idle" /\ loop.conversation_id \in Registered /\ loop.oracle_failures = 0)
    => /\ loop.iteration <= loop.max_iterations
       /\ loop.pc \in { "awaiting_oracle", "returned" }
       /\ loop.pc = "returned" => loop.scene # None
       /\ loop.max_iterations = 0 => (loop.pc = "returned" /\ loop.iteration = 0)

\* C14: when the oracle call of a round fails, the build ends with the error:
\* no tool call of that round runs, no oracle call follows, and bodies,
\* constraints and history stay as the previous round left them.
C14_OracleFailureAborts ==
    [][ /\ loop'.oracle_failures > loop.oracle_failures =>
            /\ loop'.pc = "failed"
            /\ loop'.error # ""
            /\ loop'.log = loop.log
            /\ loop'.tool_records = loop.tool_records
            /\ loop'.calls_received = loop.calls_received
            /\ loop'.iteration = loop.iteration
            /\ store' = store
        /\ loop.pc = "failed" => (loop' = loop /\ store' = store) ]_vars

\* C14 witness: the oracle call failed in a round that followed a round with
\* a successful edit
C14_Witness ==
    /\ loop.oracle_failures = 1
    /\ loop.pc = "failed"
    /\ loop.iteration >= 1
    /\ \E i \in DOMAIN loop.log : loop.log[i].ending = "ok"
    /\ LiveBodies(store, loop.conversation_id) # << >>

\* the document right after the entry of a build holds nothing and carries
\* the world and mapping of the request (given values, else the defaults)
SeededByEntry(context, input) ==
    LET st == context.scene_state[1]
        options == input.options
        w == OrElse(input.image.width_px, DefaultImageWidth)
        h == OrElse(input.image.height_px, DefaultImageHeight)
    IN /\ st.bodies = << >>
       /\ st.constraints = << >>
       /\ context.scene_history = << >>
       /\ st.world.gravity_m_s2 = OrElse(options.gravity_m_s2, DefaultWorld.gravity_m_s2)
       /\ st.world.time_step_s = OrElse(options.time_step_s, DefaultWorld.time_step_s)
       /\ st.mapping # None
       /\ st.mapping[1].scale_m_per_px = OrElse(options.scale_m_per_px, DefaultScale)
       /\ st.mapping[1].origin_px = OrElse(options.origin_px, << Px(w) \div 2, Px(h) \div 2 >>)

\* C15: on entry of a build the document is reset (no bodies, no constraints,
\* no history; world and mapping from the request or the defaults) before the
\* first oracle round, and a returned scene holds only bodies and constraints
\* that successful tool calls of this run produced.
C15_ResetOnEntry ==
    [][ /\ (loop.pc = "idle" /\ loop'.conversation_id \in DOMAIN store)
           => SeededByEntry(store'[loop'.conversation_id], loop'.input[1])
        /\ loop'.pc = "returned" =>
              /\ \A i \in DOMAIN loop'.scene[1].bodies :
                    \E k \in DOMAIN loop'.tool_records :
                       /\ ~loop'.tool_records[k].failed
                       /\ \E j \in DOMAIN loop'.tool_records[k].updated_body_ids :
                             loop'.tool_records[k].updated_body_ids[j]
                               = loop'.scene[1].bodies[i].id
              /\ \A i \in DOMAIN loop'.scene[1].constraints :
                    \E k \in DOMAIN loop'.tool_records :
                       /\ ~loop'.tool_records[k].failed
                       /\ \E j \in DOMAIN loop'.tool_records[k].updated_constraint_ids :
                             loop'.tool_records[k].updated_constraint_ids[j]
                               = loop'.scene[1].constraints[i].id ]_vars

\* C15 witness: a build entered on a conversation that held a body returned
\* a scene with a body of its own, under a mapping the request supplied
C15_Witness ==
    /\ loop.pc = "returned"
    /\ loop.entry_bodies > 0
    /\ loop.input[1].options.scale_m_per_px = Some(4)
    /\ loop.scene[1].bodies # << >>
    /\ loop.scene[1].mapping[1].scale_m_per_px = 4

\* a rectangular or circular body's footprint, projected through the mapping,
\* lies within the image [0, W] x [0, H]
InsideImage(body, frame) ==
    LET scale == frame.mapping[1].scale_m_per_px
        cx == frame.mapping[1].origin_px[1] + MetersToPx(body.position_m[1], scale)
        cy == frame.mapping[1].origin_px[2] - MetersToPx(body.position_m[2], scale)
        w == IF body.collider.type = "circle"
             THEN 2 * MetersToPx(OrElse(body.collider.radius_m, 0), scale)
             ELSE MetersToPx(OrElse(body.collider.width_m, 0), scale)
        h == IF body.collider.type = "circle"
             THEN 2 * MetersToPx(OrElse(body.collider.radius_m, 0), scale)
             ELSE MetersToPx(OrElse(body.collider.height_m, 0), scale)
    IN /\ 2 * cx - w >= 0
       /\ 2 * cx + w <= 2 * Px(frame.width_px)
       /\ 2 * cy - h >= 0
       /\ 2 * cy + h <= 2 * Px(frame.height_px)

\* C16: after every successful createBlock, modifyBlock, createPulley,
\* setMapping or batch update on a document with a mapping and an image size,
\* every rectangular or circular body's footprint, projected through the
\* current mapping, lies within the image's pixel bounds.
C16_AllFootprintsInsideImage ==
    (/\ last.op \in { "create_block", "modify_block", "create_pulley", "set_mapping",
                      "batch_update" }
     /\ ~last.raised
     /\ last.input[1].conversation_id \in DOMAIN store
     /\ ClampFrame(store[last.input[1].conversation_id]).usable)
    => \A i \in DOMAIN LiveBodies(store, last.input[1].conversation_id) :
          LiveBodies(store, last.input[1].conversation_id)[i].val.collider.type
              \in { "rectangle", "circle" }
          => InsideImage(LiveBodies(store, last.input[1].conversation_id)[i].val,
                         ClampFrame(store[last.input[1].conversation_id]))

\* C17: in every reachable document state a non-null mapping has a strictly
\* positive scale_m_per_px, whether seeded at the entry of a build or written
\* by setMapping.
C17_ScalePositive ==
    \A c \in DOMAIN store :
        (store[c].scene_state # None /\ store[c].scene_state[1].mapping # None)
        => store[c].scene_state[1].mapping[1].scale_m_per_px > 0

\* C18: in every reachable document state the world has gravity_m_s2 > 0 and
\* 0 < time_step_s <= 0.1 s (100 ms).
C18_WorldInRange ==
    \A c \in DOMAIN store :
        store[c].scene_state # None
        => /\ store[c].scene_state[1].world.gravity_m_s2 > 0
           /\ store[c].scene_state[1].world.time_step_s > 0
           /\ store[c].scene_state[1].world.time_step_s <= 100

\* C19: in every reachable document state every body of type dynamic has a
\* mass_kg that is present and strictly positive.
C19_DynamicBodiesHaveMass ==
    \A c \in DOMAIN store :
        \A i \in DOMAIN LiveBodies(store, c) :
            LiveBodies(store, c)[i].val.type = "dynamic"
            => /\ LiveBodies(store, c)[i].val.mass_kg # None
               /\ LiveBodies(store, c)[i].val.mass_kg[1] > 0

\* C20: in every snapshot the ids of the bodies list are pairwise distinct and
\* each equals the key the body is stored under, and the ids of the
\* constraints list are pairwise distinct.
C20_IdsUniqueAndKeyed ==
    \A c \in DOMAIN store :
        store[c].scene_state # None
        => LET bodies == store[c].scene_state[1].bodies
               constraints == store[c].scene_state[1].constraints
           IN /\ \A i \in DOMAIN bodies : bodies[i].val.id = bodies[i].key
              /\ \A i, j \in DOMAIN bodies :
                    bodies[i].val.id = bodies[j].val.id => i = j
              /\ \A i, j \in DOMAIN constraints :
                    constraints[i].val.id = constraints[j].val.id => i = j

\* C21: after delete(c) the conversation stays absent from the store, also
\* when a build or a batch update with resimulation on c was suspended at the
\* time of the delete; every later edit on c fails with conversation not
\* found.
C21_DeletedStaysAbsent ==
    /\ \A c \in conc.deleted : c \notin DOMAIN store
    /\ (last.op \in SceneEditToolNames /\ last.input[1].conversation_id \in conc.deleted)
       => (last.raised /\ last.error = "Conversation not found")

\* the ids of the bodies the successful tool calls of a run reported
RunBodyIds(b) ==
    UNION { { b.tool_records[k].updated_body_ids[j] :
                j \in DOMAIN b.tool_records[k].updated_body_ids } :
            k \in { i \in DOMAIN b.tool_records : ~b.tool_records[i].failed } }

\* the snapshots the successful tool calls of a run recorded
RunSnapshots(b) == Cardinality({ i \in DOMAIN b.tool_records : ~b.tool_records[i].failed })

SceneBodyIds(scene) == { scene.bodies[i].id : i \in DOMAIN scene.bodies }

\* C22: requests on one conversation interleave: whenever a build returns a
\* scene or leaves a history that lacks a body or snapshot it created, or
\* holds one it did not create, another request ran on the conversation while
\* the build was suspended on an oracle call, and such a return is reachable.
C22_InterleavingCorrupts ==
    [][ (/\ loop.pc = "awaiting_oracle"
         /\ loop'.pc = "returned"
         /\ \/ SceneBodyIds(loop'.scene[1]) # RunBodyIds(loop')
            \/ Len(store'[loop'.conversation_id].scene_history) # RunSnapshots(loop'))
        => conc.interleaved > 0 ]_vars

\* C22 witness: the build created "a" and returned a scene without it that
\* holds "b", which a request made meanwhile created
C22_Witness ==
    /\ loop.pc = "returned"
    /\ conc.interleaved > 0
    /\ "a" \in RunBodyIds(loop)
    /\ SceneBodyIds(loop.scene[1]) = { "b" }

\* the store after the requests of a sequence ran one after the other
RECURSIVE SerialRun(_, _)
SerialRun(contexts, order) ==
    IF order = << >> THEN contexts
    ELSE SerialRun(CallTool(contexts, SerialEdits[order[1]].name,
                            SerialEdits[order[1]].input).contexts, Tail(order))

\* the orders in which a set of requests can run
Orders(requests) ==
    { order \in [ 1..Cardinality(requests) -> requests ] :
        \A i, j \in DOMAIN order : order[i] = order[j] => i = j }

C24_EngineFailurePropagated ==
    (conc.batch.pc = "responded" /\ conc.batch.engine_failed)
    => conc.batch.response.raised

IsScenario(request) ==
    /\ request.image = [ width_px |-> Some(200), height_px |-> Some(100) ]
    /\ request.mapping.scale_m_per_px = Some(2)
    /\ request.segments = BuilderSegments
    /\ Len(request.labels.entities) = 3
    /\ { << request.labels.entities[k].type, request.labels.entities[k].segment_id >> :
           k \in DOMAIN request.labels.entities }
       = { << "mass", "1" >>, << "mass", "2" >>, << "pulley", "3" >> }

\* the positions of the bodies of a scene that carry the id
PositionsOf(scene, id) ==
    { scene.bodies[k].position_m : k \in { n \in DOMAIN scene.bodies : scene.bodies[n].id = id } }

ScenarioScene(scene) ==
    /\ PositionsOf(scene, << "mass", "1" >>) = { << -140, 0 >> }
    /\ PositionsOf(scene, << "mass", "2" >>) = { << 140, 0 >> }
    /\ Len(scene.constraints) = 1
    /\ scene.constraints[1].type = "rope"
    /\ { scene.constraints[1].body_a, scene.constraints[1].body_b }
       = { << "mass", "1" >>, << "mass", "2" >> }
    /\ scene.constraints[1].stiffness = 1
    /\ scene.constraints[1].length_m = 120

\* C26: for the scenario the masses are at (-0.7, 0) and (0.7, 0) meters and
\* there is exactly one rope, between the two masses, with stiffness 1.0 and
\* length 0.6 m.
C26_Scenario ==
    \A i \in DOMAIN built :
        IsScenario(built[i].request) => ScenarioScene(built[i].result.scene)

\* C26 witness: the scenario was built, with the pulley listed first
C26_Witness ==
    \E i \in DOMAIN built :
        /\ IsScenario(built[i].request)
        /\ built[i].request.labels.entities[1].type = "pulley"
        /\ Len(built[i].result.scene.bodies) = 3

\* a body's meter position converted back lands on the pixel point it was
\* placed from, and above the origin means positive meter y
RoundTrip(body, mapping) ==
    /\ meters_to_pixels(body.position_m, mapping.origin_px, mapping.scale_m_per_px)
       = body.geometry.center_px
    /\ body.geometry.center_px[2] < mapping.origin_px[2] => body.position_m[2] > 0

\* C27: the builder's pixel-to-meter conversion and the editor's meter-to-pixel
\* conversion are inverse for the same origin and scale, with meter y positive
\* above the origin.
C27_ConversionsInverse ==
    \A i \in DOMAIN built :
        \A k \in DOMAIN built[i].result.scene.bodies :
            RoundTrip(built[i].result.scene.bodies[k], built[i].result.scene.mapping)

\* the region of the request an entity names, if there is one
HasRegion(request, entity) ==
    \E n \in DOMAIN request.segments : str(request.segments[n].id) = entity.segment_id

RegionCenter(request, entity) ==
    BoxCenter(request.segments[CHOOSE n \in DOMAIN request.segments :
                                   str(request.segments[n].id) = entity.segment_id].bbox)

\* positions in the entity list of the mass entities aligned with the pulley
\* at position p
AlignedMasses(request, p) ==
    { k \in DOMAIN request.labels.entities :
        /\ request.labels.entities[k].type = "mass"
        /\ HasRegion(request, request.labels.entities[k])
        /\ Abs(RegionCenter(request, request.labels.entities[k])[1]
               - RegionCenter(request, request.labels.entities[p])[1]) < Px(100) }

\* positions of the pulley entities with a region, in order, that have at
\* least (roped) or fewer than (not roped) two aligned masses
Pulleys(request, roped) ==
    SelectSeq([ k \in DOMAIN request.labels.entities |-> k ], LAMBDA p :
        /\ request.labels.entities[p].type = "pulley"
        /\ HasRegion(request, request.labels.entities[p])
        /\ (Cardinality(AlignedMasses(request, p)) >= 2) = roped)

PulleyWarnings(result) ==
    SelectSeq(result.warnings, LAMBDA w : w.text = "Pulley has no connected masses")

OneRopeOrOneWarning(request, result) ==
    /\ Len(result.scene.constraints) = Len(Pulleys(request, TRUE))
    /\ \A k \in DOMAIN result.scene.constraints : result.scene.constraints[k].type = "rope"
    /\ Len(PulleyWarnings(result)) = Len(Pulleys(request, FALSE))
    /\ \A k \in DOMAIN PulleyWarnings(result) :
          k \in DOMAIN Pulleys(request, FALSE)
          => PulleyWarnings(result)[k].segment_id
             = request.labels.entities[Pulleys(request, FALSE)[k]].segment_id

\* C28: each pulley entity with a region gives exactly one rope when two or
\* more mass entities are aligned with it and no constraint and exactly one
\* warning otherwise; no constraint of another type is emitted.
C28_OneRopeOrOneWarning ==
    \A i \in DOMAIN built : OneRopeOrOneWarning(built[i].request, built[i].result)

\* C28 witness: one pulley got its rope and another one its warning
C28_Witness ==
    \E i \in DOMAIN built :
        /\ Len(built[i].result.scene.constraints) = 1
        /\ Len(PulleyWarnings(built[i].result)) = 1
        /\ Len(Pulleys(built[i].request, TRUE)) = 1
        /\ Len(Pulleys(built[i].request, FALSE)) = 1

\* vertical distance of the entity at position k from the pulley at position p
VerticalDistance(request, k, p) ==
    Abs(RegionCenter(request, request.labels.entities[k])[2]
        - RegionCenter(request, request.labels.entities[p])[2])

\* the end of a rope is an aligned mass of pulley p with a body, and no other
\* aligned mass is strictly closer to the pulley
RopeEnd(request, scene, rope, end, p) ==
    /\ \E n \in DOMAIN scene.bodies : scene.bodies[n].id = end
    /\ \E k \in AlignedMasses(request, p) :
          /\ << "mass", request.labels.entities[k].segment_id >> = end
          /\ \A o \in AlignedMasses(request, p) :
                << "mass", request.labels.entities[o].segment_id >>
                    \notin { rope.body_a, rope.body_b }
                => VerticalDistance(request, o, p) >= VerticalDistance(request, k, p)

RopesChosen(request, scene) ==
    \A k \in DOMAIN scene.constraints :
        /\ k \in DOMAIN Pulleys(request, TRUE)
        /\ RopeEnd(request, scene, scene.constraints[k], scene.constraints[k].body_a,
                   Pulleys(request, TRUE)[k])
        /\ RopeEnd(request, scene, scene.constraints[k], scene.constraints[k].body_b,
                   Pulleys(request, TRUE)[k])

\* C29: every inferred rope connects two mass entities within the 100 px
\* horizontal tolerance of its pulley, both ends are ids of bodies of the
\* output, and no other aligned mass is strictly closer to the pulley.
C29_RopeEndpoints ==
    \A i \in DOMAIN built : RopesChosen(built[i].request, built[i].result.scene)

\* C29 witness: three masses are aligned with the pulley, the closest one is
\* listed last, and the rope starts at it
C29_Witness ==
    \E i \in DOMAIN built :
        /\ Len(built[i].result.scene.constraints) = 1
        /\ Len(Pulleys(built[i].request, TRUE)) = 1
        /\ Cardinality(AlignedMasses(built[i].request,
                                     Pulleys(built[i].request, TRUE)[1])) = 3
        /\ built[i].request.labels.entities[1].segment_id = "1"
        /\ built[i].request.labels.entities[2].segment_id = "2"
        /\ built[i].result.scene.constraints[1].body_a = << "mass", "5" >>

DistinctIds(scene) ==
    /\ \A k, n \in DOMAIN scene.bodies : scene.bodies[k].id = scene.bodies[n].id => k = n
    /\ \A k \in DOMAIN scene.constraints :
          scene.constraints[k].body_a # scene.constraints[k].body_b

\* C30: in every output of the builder the body ids are pairwise distinct and
\* the two ends of each rope are distinct bodies, also when two entities name
\* the same region.
C30_BuilderIdsDistinct ==
    \A i \in DOMAIN built : DistinctIds(built[i].result.scene)

\* C31: a body of the builder is static exactly when its entity category is
\* surface, ramp, ground or pulley; for mass and every other category it is
\* dynamic.
C31_BodyTypeByCategory ==
    \A i \in DOMAIN built :
        \A k \in DOMAIN built[i].result.scene.bodies :
            (built[i].result.scene.bodies[k].type = "static")
            <=> (built[i].result.scene.bodies[k].id[1]
                    \in { "surface", "ramp", "ground", "pulley" })

\* the ids a constraint names (null references left out)
NamedIds(constraint) ==
    { ref[1] : ref \in { r \in { constraint.body_a, constraint.body_b } : r # None } }

\* the named ids of a constraint that no body of the scene carries
UnknownIds(scene, constraint) ==
    { id \in NamedIds(constraint) : \A n \in DOMAIN scene.bodies : scene.bodies[n].id # id }

\* what the error of a rejected scene names: the unknown ids of the first
\* constraint that has any, left aside the ids in ignored
NamesFirstOffender(call, ignored) ==
    \E k \in DOMAIN call.scene[1].constraints :
        /\ UnknownIds(call.scene[1], call.scene[1].constraints[k]) \ ignored # {}
        /\ \A n \in 1..(k - 1) :
              UnknownIds(call.scene[1], call.scene[1].constraints[n]) \ ignored = {}
        /\ { call.missing[n] : n \in DOMAIN call.missing }
           = UnknownIds(call.scene[1], call.scene[1].constraints[k]) \ ignored

\* normalize accepts exactly the scenes whose constraints name, apart from the
\* ids in ignored, only body ids, and the error names the unknown ids
AcceptsExactly(call, ignored) ==
    /\ ~call.raised
       <=> \A k \in DOMAIN call.scene[1].constraints :
              UnknownIds(call.scene[1], call.scene[1].constraints[k]) \ ignored = {}
    /\ call.raised => NamesFirstOffender(call, ignored)

C33_ValidatorMatchesResolver ==
    \A i, j \in DOMAIN checked :
        (/\ checked[i].op = "validate_scene_entities"
         /\ checked[j].op = "resolve_kind"
         /\ checked[i].entities = checked[j].entities)
        => /\ checked[i].scene_kind = checked[j].scene_kind
           /\ (checked[i].scene_kind = None) <=> checked[j].raised

\* C34: setMapping changes only the mapping and setWorld changes only the
\* world: across a successful call every body (position_m and collider
\* included), every constraint and the other of world/mapping read the same
\* before and after, and the history is the previous one with exactly one
\* snapshot appended.
C34_FrameOfWorldAndMapping ==
    [][ ( /\ last'.op \in { "set_world", "set_mapping" }
          /\ ~last'.raised ) =>
          LET c == last'.input[1].conversation_id
              before == Document(store, c)
              after == Document(store', c)
          IN /\ after.view.bodies = before.view.bodies
             /\ after.view.constraints = before.view.constraints
             /\ last'.op = "set_world" => after.view.mapping = before.view.mapping
             /\ last'.op = "set_mapping" => after.view.world = before.view.world
             /\ Len(after.history) = Len(before.history) + 1
             /\ IsPrefix(before.history, after.history)
             /\ after.history[Len(after.history)].scene = after.view
             /\ \A d \in DOMAIN store \ { c } : store'[d] = store[d]
      ]_vars

\* C34 witness: the scale was changed under a document that holds a body away
\* from the origin and a constraint
C34_Witness ==
    /\ last.op = "set_mapping"
    /\ ~last.raised
    /\ last.input[1].scale_m_per_px = 4
    /\ \E i \in DOMAIN LiveBodies(store, "c1") :
           LiveBodies(store, "c1")[i].val.position_m # << 0, 0 >>
    /\ store["c1"].scene_state[1].constraints # << >>
    /\ Len(store["c1"].scene_history) >= 2
    /\ store["c1"].scene_history[Len(store["c1"].scene_history) - 1].scene.mapping # None
    /\ store["c1"].scene_history[Len(store["c1"].scene_history) - 1].scene.mapping
          # store["c1"].scene_state[1].mapping

\* the tags of a clamper call agree with what the call changed
TagsReportChanges(call) ==
    LET tags == { call.result.adjustments[i] : i \in DOMAIN call.result.adjustments }
    IN /\ tags = {} <=> /\ call.result.position = call.position_m
                        /\ call.result.size = call.size_m
       /\ "width_clamped" \in tags <=> call.result.size[1] # call.size_m[1]
       /\ "height_clamped" \in tags <=> call.result.size[2] # call.size_m[2]
       /\ "position_x_clamped" \in tags <=> call.result.position[1] # call.position_m[1]
       /\ "position_y_clamped" \in tags <=> call.result.position[2] # call.position_m[2]

\* C36: the clamper returns an empty tag list exactly when the returned
\* center and size equal the requested ones, every change to width, height,
\* x or y is reported by its tag (also when the center is moved by the
\* fall-back-to-centering rule), and re-clamping a clamped result changes
\* nothing and yields no tags.
C36_TagsExactlyChanges ==
    \A i \in DOMAIN checked :
        /\ TagsReportChanges(checked[i])
        /\ checked[i].op = "reclamp" =>
              /\ checked[i].result.position = checked[i].position_m
              /\ checked[i].result.size = checked[i].size_m
              /\ checked[i].result.adjustments = << >>

\* the clamp tags a body carries
ClampTags(body) ==
    IF body.meta = None THEN << >> ELSE OrElse(body.meta[1].image_boundary_adjustments, << >>)

\* the fields of a body other than its position, its collider and its clamp
\* tags, with those a modifyBlock input provides blanked out
FieldsNotProvided(body, input) ==
    [ id           |-> body.id,
      type         |-> IF input.body_type # None THEN "" ELSE body.type,
      angle_rad    |-> IF input.angle_rad # None THEN None ELSE body.angle_rad,
      velocity_m_s |-> IF input.velocity_m_s # None THEN None ELSE body.velocity_m_s,
      mass_kg      |-> IF input.mass_kg # None THEN None ELSE body.mass_kg,
      notes        |-> IF input.notes # None THEN None ELSE body.notes,
      friction     |-> IF input.friction # None \/ body.material = None THEN None
                       ELSE body.material[1].friction,
      restitution  |-> IF input.restitution # None \/ body.material = None THEN None
                       ELSE body.material[1].restitution,
      density_kg_m3 |-> IF input.density_kg_m3 # None \/ body.material = None THEN None
                        ELSE body.material[1].density_kg_m3,
      category     |-> IF body.meta = None THEN None ELSE body.meta[1].category,
      parent       |-> IF body.meta = None THEN None ELSE body.meta[1].parent ]

\* C35: a successful modifyBlock changes no other body and no constraint,
\* leaves every field of the target that was not provided and is not
\* position/size geometry as it was, and afterwards the body carries clamp
\* tags exactly when the clamp of this call moved or resized it.
C35_ModifyBlockFrame ==
    [][ ( /\ last'.op = "modify_block"
          /\ ~last'.raised ) =>
          LET c == last'.input[1].conversation_id
              id == last'.input[1].body_id
              before == LiveBodies(store, c)
              after == LiveBodies(store', c)
              requested == MergeBlockFields(DictGet(before, id), last'.input[1])
              stored == DictGet(after, id)
          IN /\ DictKeys(after) = DictKeys(before)
             /\ \A i \in DOMAIN before :
                   before[i].key # id => after[i] = before[i]
             /\ DocView(store'[c]).constraints = DocView(store[c]).constraints
             /\ FieldsNotProvided(stored, last'.input[1])
                   = FieldsNotProvided(DictGet(before, id), last'.input[1])
             /\ ClampTags(stored) # << >>
                   <=> \/ stored.position_m # requested.position_m
                       \/ stored.collider # requested.collider
      ]_vars

\* C37: every TOOL_RESULT transcript entry carries the scene its tool call
\* produced together with the image rendered from that same scene, never the
\* render of an earlier scene, also when the render of the current scene
\* fails or is unavailable.
C37_ResultCarriesOwnRender ==
    \A i \in DOMAIN loop.transcript :
        loop.transcript[i].kind = "TOOL_RESULT" =>
            loop.transcript[i].image = render_scene_image(loop.transcript[i].scene[1], TRUE)

\* the constraints of a conversation's document, as the dict holds them
LiveConstraints(contexts, conversation_id) ==
    IF conversation_id \in DOMAIN contexts /\ contexts[conversation_id].scene_state # None
    THEN contexts[conversation_id].scene_state[1].constraints ELSE << >>

\* C38: a successful create operation called without an explicit id never
\* overwrites an existing entity: the bodies (for createRope the constraints)
\* that existed are unchanged and their number grows by exactly one (by two
\* for a pulley created with its axle).
C38_AutoIdNeverOverwrites ==
    [][ ( /\ last'.op \in { "create_block", "create_pulley", "create_rope" }
          /\ ~last'.raised ) =>
          LET c == last'.input[1].conversation_id
              input == last'.input[1]
              bodies == LiveBodies(store, c)
              constraints == LiveConstraints(store, c)
          IN /\ (last'.op = "create_block" /\ input.body_id = None) =>
                   /\ Len(LiveBodies(store', c)) = Len(bodies) + 1
                   /\ IsPrefix(bodies, LiveBodies(store', c))
             /\ (last'.op = "create_pulley" /\ input.pulley_id = None) =>
                   /\ Len(LiveBodies(store', c)) = Len(bodies) + Len(last'.body_ids)
                   /\ IsPrefix(bodies, LiveBodies(store', c))
             /\ (last'.op = "create_rope" /\ input.constraint_id = None) =>
                   /\ Len(LiveConstraints(store', c)) = Len(constraints) + 1
                   /\ IsPrefix(constraints, LiveConstraints(store', c))
      ]_vars

\* C40: a BuildLoop start that fails before any tool call is executed (the
\* uploaded image cannot be loaded) leaves the bodies, the constraints and the
\* history the conversation held unchanged.
C40_FailedStartKeepsDocument ==
    [][ ( /\ last'.op = "build_physics_scene"
          /\ last'.raised
          /\ last'.input[1].conversation_id \in DOMAIN store ) =>
          LET c == last'.input[1].conversation_id
              before == Document(store, c)
              after == Document(store', c)
          IN /\ after.view.bodies = before.view.bodies
             /\ after.view.constraints = before.view.constraints
             /\ after.history = before.history
      ]_vars

\* the conversation the request of a step is for: the conversation of the
\* running build, else the conversation the edit request named
RequestFor(build, request) ==
    IF build.pc # "idle" THEN build.conversation_id ELSE request.input[1].conversation_id

\* C39: an edit operation, a batch update or a build for one conversation
\* never changes the bodies, constraints, world, mapping or history of
\* another conversation; in a build every tool call is applied to the run's
\* own conversation, also when the oracle's arguments name another one (the
\* scene of every TOOL_RESULT is an entry of the run's own history).
C39_ConversationsIsolated ==
    [][ /\ DOMAIN store' = DOMAIN store
        /\ \A other \in DOMAIN store \ { RequestFor(loop', last') } :
              Document(store', other) = Document(store, other)
        /\ \A i \in DOMAIN loop'.transcript :
              loop'.transcript[i].kind = "TOOL_RESULT" =>
                  \E n \in DOMAIN store'[loop'.conversation_id].scene_history :
                      store'[loop'.conversation_id].scene_history[n].scene
                          = loop'.transcript[i].scene[1]
      ]_vars

\* C39 witness: the build for "c1" ran a create_block whose arguments named
\* "c2"; the body is in the document of "c1" and "c2" holds what it held
C39_Witness ==
    /\ loop.conversation_id = "c1"
    /\ \E i \in DOMAIN loop.log : loop.log[i].name = "create_block" /\ loop.log[i].ending = "ok"
    /\ DictHas(LiveBodies(store, "c1"), "a")
    /\ Document(store, "c2") = Document([ c \in ConvIds |-> EarlierContext ], "c2")
    /\ Document(store, "c1") # Document(store, "c2")

====
